---- MODULE Spec2Model ----
(***************************************************************************)
(* Model of the in-memory task store of src/todo_app.py (TaskManager and   *)
(* the due-date classifier of CLIInterface).                               *)
(*                                                                         *)
(* Encoding of Python values:                                              *)
(*   - a str is the sequence of its character codes ("a" is <<97>>), so    *)
(*     that strip(), lower(), len() and `in` are computed, not assumed;    *)
(*   - an Optional value is a sequence of length at most one: None is      *)
(*     <<>> and a present value x is <<x>>;                                *)
(*   - the members of the priority and recurrence enumerations are TLA+    *)
(*     strings, since the code only tests them for equality/membership;    *)
(*   - a datetime is a record of its calendar fields; the model clock has  *)
(*     a resolution of one second (microsecond is always 0).               *)
(***************************************************************************)
EXTENDS Integers, Sequences, FiniteSets, TLC

VARIABLES
    tasks,      \* TaskManager._tasks: the ordered list of Task records
    next_id,    \* TaskManager._next_id
    now,        \* the datetime that datetime.now() returns
    call,       \* the last call made on the engine: operation, arguments, outcome
    hist        \* history: ids returned by add_task, numbers of clones and deletions

vars == <<tasks, next_id, now, call, hist>>

----------------------------------------------------------------------------
(* Optional values *)

None == <<>>
Some(x) == <<x>>
IsNone(o) == o = <<>>
Val(o) == o[1]

----------------------------------------------------------------------------
(* str operations *)

\* str.isspace() on one character (ASCII whitespace)
IsSpace(c) == c \in {9, 10, 11, 12, 13, 32}

\* str.strip(): drop leading and trailing whitespace
strip(s) ==
    LET idx == {i \in 1..Len(s) : ~IsSpace(s[i])}
    IN  IF idx = {} THEN <<>>
        ELSE LET lo == CHOOSE i \in idx : \A j \in idx : i <= j
                 hi == CHOOSE i \in idx : \A j \in idx : i >= j
             IN  SubSeq(s, lo, hi)

\* str.lower() (ASCII letters)
lower(s) == [i \in 1..Len(s) |-> IF s[i] \in 65..90 THEN s[i] + 32 ELSE s[i]]

\* Python's `q in s` for two str: q occurs in s as a contiguous substring
StrIn(q, s) ==
    \E i \in 0..(Len(s) - Len(q)) : \A j \in 1..Len(q) : s[i + j] = q[j]

\* Python's `x in xs` for a list
ListIn(x, xs) == \E i \in 1..Len(xs) : xs[i] = x

----------------------------------------------------------------------------
(* datetime: the calendar arithmetic of the standard library *)

\* datetime._is_leap
IsLeap(y) == y % 4 = 0 /\ (y % 100 # 0 \/ y % 400 = 0)

\* datetime._days_in_month
DaysInMonth(y, m) ==
    IF m = 2 THEN (IF IsLeap(y) THEN 29 ELSE 28)
    ELSE IF m \in {4, 6, 9, 11} THEN 30 ELSE 31

\* datetime._days_before_year: days before January 1st of year y
DaysBeforeYear(y) ==
    ((y - 1) * 365) + ((y - 1) \div 4) - ((y - 1) \div 100) + ((y - 1) \div 400)

\* datetime._days_before_month: days of year y before the first of month m
RECURSIVE DaysBeforeMonth(_, _)
DaysBeforeMonth(y, m) ==
    IF m = 1 THEN 0 ELSE DaysBeforeMonth(y, m - 1) + DaysInMonth(y, m - 1)

\* datetime._ymd2ord: proleptic Gregorian ordinal, 0001-01-01 is day 1
ymd2ord(y, m, d) == DaysBeforeYear(y) + DaysBeforeMonth(y, m) + d

\* datetime._ord2ymd: the inverse, by 400/100/4/1-year cycles
ord2ymd(n) ==
    LET n0   == n - 1
        n400 == n0 \div 146097
        r400 == n0 % 146097
        n100 == r400 \div 36524
        r100 == r400 % 36524
        n4   == r100 \div 1461
        r4   == r100 % 1461
        n1   == r4 \div 365
        r1   == r4 % 365
        y    == (n400 * 400) + (n100 * 100) + (n4 * 4) + n1 + 1
    IN  IF n1 = 4 \/ n100 = 4
        THEN [year |-> y - 1, month |-> 12, day |-> 31]
        ELSE LET m == CHOOSE k \in 1..12 :
                          /\ DaysBeforeMonth(y, k) <= r1
                          /\ r1 < DaysBeforeMonth(y, k) + DaysInMonth(y, k)
             IN  [year |-> y, month |-> m, day |-> r1 - DaysBeforeMonth(y, m) + 1]

DateTime(y, mo, d, h, mi, s) ==
    [year |-> y, month |-> mo, day |-> d, hour |-> h, minute |-> mi, second |-> s]

\* seconds since midnight
SecondOfDay(dt) == (dt.hour * 3600) + (dt.minute * 60) + dt.second

\* datetime.toordinal
toordinal(dt) == ymd2ord(dt.year, dt.month, dt.day)

\* timedelta(days, seconds) normalised to 0 <= seconds < 86400
timedelta(days, seconds) ==
    [days |-> days + (seconds \div 86400), seconds |-> seconds % 86400]

\* datetime.__add__: the date from the ordinal of the sum, the time from its seconds
AddDelta(dt, td) ==
    LET sum == timedelta(toordinal(dt) + td.days, SecondOfDay(dt) + td.seconds)
        ymd == ord2ymd(sum.days)
        r   == sum.seconds
    IN  DateTime(ymd.year, ymd.month, ymd.day, r \div 3600, (r % 3600) \div 60, r % 60)

\* datetime.__lt__ : comparison of the fields, most significant first
DtLess(a, b) ==
    LET ka == <<a.year, a.month, a.day, a.hour, a.minute, a.second>>
        kb == <<b.year, b.month, b.day, b.hour, b.minute, b.second>>
    IN  \E i \in 1..6 : ka[i] < kb[i] /\ \A j \in 1..(i - 1) : ka[j] = kb[j]

\* datetime.__sub__: (a - b) as a normalised timedelta
TimeDelta(a, b) ==
    timedelta(toordinal(a) - toordinal(b), SecondOfDay(a) - SecondOfDay(b))

\* timedelta.total_seconds()
total_seconds(td) == (td.days * 86400) + td.seconds

\* datetime.replace(year, month, day) raises ValueError when the day does not exist
ReplaceRaises(y, m, d) == d > DaysInMonth(y, m)

----------------------------------------------------------------------------
(* ISO-8601 text <-> datetime *)

Digit(c) == c - 48

Num2(s, i) == (Digit(s[i]) * 10) + Digit(s[i + 1])

Num4(s, i) == (Num2(s, i) * 100) + Num2(s, i + 2)

\* datetime.fromisoformat on "YYYY-MM-DD", "YYYY-MM-DD?HH:MM" and
\* "YYYY-MM-DD?HH:MM:SS" (? is any one separator character)
fromisoformat(s) ==
    DateTime(Num4(s, 1), Num2(s, 6), Num2(s, 9),
             IF Len(s) >= 16 THEN Num2(s, 12) ELSE 0,
             IF Len(s) >= 16 THEN Num2(s, 15) ELSE 0,
             IF Len(s) >= 19 THEN Num2(s, 18) ELSE 0)

Fmt2(n) == <<48 + (n \div 10), 48 + (n % 10)>>

Fmt4(n) == Fmt2(n \div 100) \o Fmt2(n % 100)

\* datetime.isoformat(): "YYYY-MM-DDTHH:MM:SS" (the fraction is omitted when
\* microsecond is 0)
isoformat(dt) ==
    Fmt4(dt.year) \o <<45>> \o Fmt2(dt.month) \o <<45>> \o Fmt2(dt.day) \o <<84>>
    \o Fmt2(dt.hour) \o <<58>> \o Fmt2(dt.minute) \o <<58>> \o Fmt2(dt.second)

----------------------------------------------------------------------------
(* Bounds of the model *)

\* ids 1..MaxId can be assigned: add and a spawning mark_complete stop there
MaxId == 3

\* the clock advances at most MaxTicks times
MaxTicks == 1

----------------------------------------------------------------------------
(* Task *)

\* Task(...) followed by __post_init__: absent tags become [], an absent
\* created_at becomes now, an absent recurrence becomes "none"
Task(id, description, completed, priority, tags, created_at, due_date, recurrence, last_completed) ==
    [id             |-> id,
     description    |-> description,
     completed      |-> completed,
     priority       |-> priority,
     tags           |-> IF IsNone(tags) THEN <<>> ELSE Val(tags),
     created_at     |-> IF IsNone(created_at) THEN isoformat(now) ELSE Val(created_at),
     due_date       |-> due_date,
     recurrence     |-> IF IsNone(recurrence) THEN "none" ELSE Val(recurrence),
     last_completed |-> last_completed]

\* a variant of IndexOfId whose scan ends on the last task when no id matches
IndexOfId_LastWhenMissing(task_id) ==
    IF \E i \in 1..Len(tasks) : tasks[i].id = task_id
    THEN CHOOSE i \in 1..Len(tasks) :
             /\ tasks[i].id = task_id
             /\ \A j \in 1..(i - 1) : tasks[j].id # task_id
    ELSE Len(tasks)

\* the first index of `tasks` holding a task with this id, 0 when there is none
IndexOfId(task_id) ==
    IF \E i \in 1..Len(tasks) : tasks[i].id = task_id
    THEN CHOOSE i \in 1..Len(tasks) :
             /\ tasks[i].id = task_id
             /\ \A j \in 1..(i - 1) : tasks[j].id # task_id
    ELSE 0

\* get_task_by_id: the first task with this id, None when there is none
get_task_by_id(task_id) ==
    IF IndexOfId(task_id) = 0 THEN None ELSE Some(tasks[IndexOfId(task_id)])

\* get_all_tasks: a copy of the list
get_all_tasks == tasks

----------------------------------------------------------------------------
(* add_task *)

\* the tag checks shared by add_task and update_task: True when they raise
TagsRaise(tags) ==
    \/ Len(tags) > 10
    \/ \E i \in 1..Len(tags) : Len(tags[i]) > 30
    \/ \E i \in 1..Len(tags) : strip(tags[i]) = <<>>

\* a variant of AddRaises that forgets the checks of the tags
AddRaises_NoTagCheck(a) ==
    \/ a.description = <<>> \/ strip(a.description) = <<>>
    \/ (~IsNone(a.priority) /\ Val(a.priority) \notin {"high", "medium", "low"})
    \/ (~IsNone(a.recurrence)
            /\ Val(a.recurrence) \notin {"none", "daily", "weekly", "monthly"})

\* a variant of AddRaises that forgets the check of the priority
AddRaises_NoPriorityCheck(a) ==
    \/ a.description = <<>> \/ strip(a.description) = <<>>
    \/ (~IsNone(a.recurrence)
            /\ Val(a.recurrence) \notin {"none", "daily", "weekly", "monthly"})
    \/ TagsRaise(IF IsNone(a.tags) THEN <<>> ELSE Val(a.tags))

\* add_task raises ValueError
AddRaises(a) ==
    \/ a.description = <<>> \/ strip(a.description) = <<>>
    \/ (~IsNone(a.priority) /\ Val(a.priority) \notin {"high", "medium", "low"})
    \/ (~IsNone(a.recurrence)
            /\ Val(a.recurrence) \notin {"none", "daily", "weekly", "monthly"})
    \/ TagsRaise(IF IsNone(a.tags) THEN <<>> ELSE Val(a.tags))

\* a variant of AddedTask that numbers the task by the length of the list
AddedTask_IdFromLen(a) ==
    Task(Len(tasks) + 1, strip(a.description), FALSE, a.priority,
         Some(IF IsNone(a.tags) THEN <<>> ELSE Val(a.tags)),
         None, a.due_date, a.recurrence, None)

\* a variant of AddedTask that stores the description as given
AddedTask_Unstripped(a) ==
    Task(next_id, a.description, FALSE, a.priority,
         Some(IF IsNone(a.tags) THEN <<>> ELSE Val(a.tags)),
         None, a.due_date, a.recurrence, None)

\* the Task a successful add_task builds
AddedTask(a) ==
    Task(next_id, strip(a.description), FALSE, a.priority,
         Some(IF IsNone(a.tags) THEN <<>> ELSE Val(a.tags)),
         None, a.due_date, a.recurrence, None)

add_task(a) ==
    IF AddRaises(a)
    THEN /\ call' = [op |-> "add_task", args |-> a, raised |-> TRUE, ret |-> None]
         /\ UNCHANGED <<tasks, next_id, now, hist>>
    ELSE /\ next_id <= MaxId
         /\ tasks' = Append(tasks, AddedTask(a))
         /\ next_id' = next_id + 1
         /\ hist' = [hist EXCEPT !.added = Append(@, AddedTask(a).id)]
         /\ call' = [op |-> "add_task", args |-> a, raised |-> FALSE,
                     ret |-> Some(AddedTask(a))]
         /\ UNCHANGED now

----------------------------------------------------------------------------
(* update_task *)

\* a variant of UpdDescription that stores the description as given
UpdDescription_NoStrip(st, a) ==
    IF st.raised \/ IsNone(a.description) THEN st
    ELSE IF Val(a.description) = <<>> \/ strip(Val(a.description)) = <<>>
         THEN [st EXCEPT !.raised = TRUE]
         ELSE [st EXCEPT !.task.description = Val(a.description)]

\* a variant of UpdDescription that also stamps the task with the current time
UpdDescription_Restamps(st, a) ==
    IF st.raised \/ IsNone(a.description) THEN st
    ELSE IF Val(a.description) = <<>> \/ strip(Val(a.description)) = <<>>
         THEN [st EXCEPT !.raised = TRUE]
         ELSE [st EXCEPT !.task.description = strip(Val(a.description)),
                         !.task.created_at = isoformat(now)]

\* One field of update_task: `st` is [raised, task] so far; a step that finds
\* `bad` raises and keeps the task as the earlier steps left it
UpdDescription(st, a) ==
    IF st.raised \/ IsNone(a.description) THEN st
    ELSE IF Val(a.description) = <<>> \/ strip(Val(a.description)) = <<>>
         THEN [st EXCEPT !.raised = TRUE]
         ELSE [st EXCEPT !.task.description = strip(Val(a.description))]

UpdPriority(st, a) ==
    IF st.raised \/ IsNone(a.priority) THEN st
    ELSE IF Val(a.priority) \notin {"high", "medium", "low"}
         THEN [st EXCEPT !.raised = TRUE]
         ELSE [st EXCEPT !.task.priority = a.priority]

UpdTags(st, a) ==
    IF st.raised \/ IsNone(a.tags) THEN st
    ELSE IF TagsRaise(Val(a.tags))
         THEN [st EXCEPT !.raised = TRUE]
         ELSE [st EXCEPT !.task.tags = Val(a.tags)]

UpdDueDate(st, a) ==
    IF st.raised \/ IsNone(a.due_date) THEN st
    ELSE [st EXCEPT !.task.due_date = a.due_date]

UpdRecurrence(st, a) ==
    IF st.raised \/ IsNone(a.recurrence) THEN st
    ELSE IF Val(a.recurrence) \notin {"none", "daily", "weekly", "monthly"}
         THEN [st EXCEPT !.raised = TRUE]
         ELSE [st EXCEPT !.task.recurrence = Val(a.recurrence)]

\* the fields are handled in the order of the code, each one applied to the
\* task object before the next one is validated
UpdateOutcome(task, a) ==
    UpdRecurrence(UpdDueDate(UpdTags(UpdPriority(UpdDescription(
        [raised |-> FALSE, task |-> task], a), a), a), a), a)

update_task(task_id, a) ==
    LET i == IndexOfId(task_id) IN
    IF IsNone(get_task_by_id(task_id))
    THEN /\ call' = [op |-> "update_task", id |-> task_id, args |-> a,
                     raised |-> FALSE, ret |-> FALSE]
         /\ UNCHANGED <<tasks, next_id, now, hist>>
    ELSE LET out == UpdateOutcome(tasks[i], a) IN
         /\ tasks' = [tasks EXCEPT ![i] = out.task]
         /\ call' = [op |-> "update_task", id |-> task_id, args |-> a,
                     raised |-> out.raised, ret |-> ~out.raised]
         /\ UNCHANGED <<next_id, now, hist>>

----------------------------------------------------------------------------
(* delete_task *)

\* a variant of ListRemove that drops the element at position x.id
ListRemove_ByPosition(xs, x) ==
    LET k == IF x.id <= Len(xs) THEN x.id ELSE Len(xs)
    IN  SubSeq(xs, 1, k - 1) \o SubSeq(xs, k + 1, Len(xs))

\* list.remove(x): drop the first element equal to x
ListRemove(xs, x) ==
    LET k == CHOOSE i \in 1..Len(xs) : xs[i] = x /\ \A j \in 1..(i - 1) : xs[j] # x
    IN  SubSeq(xs, 1, k - 1) \o SubSeq(xs, k + 1, Len(xs))

delete_task(task_id) ==
    IF ~IsNone(get_task_by_id(task_id))
    THEN /\ tasks' = ListRemove(tasks, Val(get_task_by_id(task_id)))
         /\ hist' = [hist EXCEPT !.deleted = @ + 1]
         /\ call' = [op |-> "delete_task", id |-> task_id, raised |-> FALSE,
                     ret |-> TRUE]
         /\ UNCHANGED <<next_id, now>>
    ELSE /\ call' = [op |-> "delete_task", id |-> task_id, raised |-> FALSE,
                     ret |-> FALSE]
         /\ UNCHANGED <<tasks, next_id, now, hist>>

----------------------------------------------------------------------------
(* calculate_next_due_date *)

\* a variant of MonthlyDay whose February always has 28 days
MonthlyDay_NoLeapYear(year, month, day) ==
    IF ~ReplaceRaises(year, month, day) THEN day
    ELSE IF month = 2 THEN 28
         ELSE IF month \in {4, 6, 9, 11} THEN 30 ELSE 31

\* the day the monthly branch ends with: the same day when replace() accepts
\* it, else the last day of the month from the code's own table
MonthlyDay(year, month, day) ==
    IF ~ReplaceRaises(year, month, day) THEN day
    ELSE IF month = 2
         THEN (IF year % 4 = 0 /\ (year % 100 # 0 \/ year % 400 = 0) THEN 29 ELSE 28)
         ELSE IF month \in {4, 6, 9, 11} THEN 30 ELSE 31

\* a variant of MonthlyNext that always ends on the last day of the next month
MonthlyNext_LastDay(current_date) ==
    LET over  == current_date.month + 1 > 12
        month == IF over THEN 1 ELSE current_date.month + 1
        year  == IF over THEN current_date.year + 1 ELSE current_date.year
    IN  [current_date EXCEPT !.year = year, !.month = month,
                             !.day = DaysInMonth(year, month)]

MonthlyNext(current_date) ==
    LET over  == current_date.month + 1 > 12
        month == IF over THEN 1 ELSE current_date.month + 1
        year  == IF over THEN current_date.year + 1 ELSE current_date.year
    IN  [current_date EXCEPT !.year = year, !.month = month,
                             !.day = MonthlyDay(year, month, current_date.day)]

\* a variant of calculate_next_due_date that starts from the current time
calculate_next_due_date_FromNow(current_due_date, recurrence) ==
    LET current_date == now
        next_date == IF recurrence = "daily" THEN AddDelta(current_date, timedelta(1, 0))
                     ELSE IF recurrence = "weekly" THEN AddDelta(current_date, timedelta(7, 0))
                     ELSE IF recurrence = "monthly" THEN MonthlyNext(current_date)
                     ELSE current_date
    IN  isoformat(next_date)

calculate_next_due_date(current_due_date, recurrence) ==
    LET current_date == fromisoformat(current_due_date)
        next_date == IF recurrence = "daily" THEN AddDelta(current_date, timedelta(1, 0))
                     ELSE IF recurrence = "weekly" THEN AddDelta(current_date, timedelta(7, 0))
                     ELSE IF recurrence = "monthly" THEN MonthlyNext(current_date)
                     ELSE current_date
    IN  isoformat(next_date)

----------------------------------------------------------------------------
(* mark_complete / mark_incomplete *)

\* a variant of Spawns that looks at the due date only
Spawns_IgnoresRecurrence(task) ==
    ~IsNone(task.due_date) /\ Val(task.due_date) # <<>>

\* the task is recurring and has a (non-empty) due date: completing it spawns
Spawns(task) ==
    /\ task.recurrence # "" /\ task.recurrence # "none"
    /\ ~IsNone(task.due_date) /\ Val(task.due_date) # <<>>

\* a variant of SpawnedTask that copies the whole completed task
SpawnedTask_CopiesCompletion(task) ==
    Task(next_id, task.description, task.completed, task.priority, Some(task.tags),
         Some(isoformat(now)),
         Some(calculate_next_due_date(Val(task.due_date), task.recurrence)),
         Some(task.recurrence), task.last_completed)

\* a variant of SpawnedTask that keeps the id of the completed task
SpawnedTask_KeepsId(task) ==
    Task(task.id, task.description, FALSE, task.priority, Some(task.tags),
         Some(isoformat(now)),
         Some(calculate_next_due_date(Val(task.due_date), task.recurrence)),
         Some(task.recurrence), None)

\* the new instance mark_complete appends for a recurring task
SpawnedTask(task) ==
    Task(next_id, task.description, FALSE, task.priority, Some(task.tags),
         Some(isoformat(now)),
         Some(calculate_next_due_date(Val(task.due_date), task.recurrence)),
         Some(task.recurrence), None)

\* a variant of mark_complete that sets the flag without the time of completion
mark_complete_NoStamp(task_id) ==
    LET i == IndexOfId(task_id) IN
    IF IsNone(get_task_by_id(task_id))
    THEN /\ call' = [op |-> "mark_complete", id |-> task_id, raised |-> FALSE,
                     ret |-> FALSE]
         /\ UNCHANGED <<tasks, next_id, now, hist>>
    ELSE LET done == [tasks[i] EXCEPT !.completed = TRUE]
         IN  /\ IF Spawns(done)
                THEN /\ next_id <= MaxId
                     /\ tasks' = Append([tasks EXCEPT ![i] = done], SpawnedTask(done))
                     /\ next_id' = next_id + 1
                     /\ hist' = [hist EXCEPT !.spawned = @ + 1]
                ELSE /\ tasks' = [tasks EXCEPT ![i] = done]
                     /\ UNCHANGED <<next_id, hist>>
             /\ call' = [op |-> "mark_complete", id |-> task_id, raised |-> FALSE,
                         ret |-> TRUE]
             /\ UNCHANGED now

mark_complete(task_id) ==
    LET i == IndexOfId(task_id) IN
    IF IsNone(get_task_by_id(task_id))
    THEN /\ call' = [op |-> "mark_complete", id |-> task_id, raised |-> FALSE,
                     ret |-> FALSE]
         /\ UNCHANGED <<tasks, next_id, now, hist>>
    ELSE LET done == [tasks[i] EXCEPT !.completed = TRUE,
                                      !.last_completed = Some(isoformat(now))]
         IN  /\ IF Spawns(done)
                THEN /\ next_id <= MaxId
                     /\ tasks' = Append([tasks EXCEPT ![i] = done], SpawnedTask(done))
                     /\ next_id' = next_id + 1
                     /\ hist' = [hist EXCEPT !.spawned = @ + 1]
                ELSE /\ tasks' = [tasks EXCEPT ![i] = done]
                     /\ UNCHANGED <<next_id, hist>>
             /\ call' = [op |-> "mark_complete", id |-> task_id, raised |-> FALSE,
                         ret |-> TRUE]
             /\ UNCHANGED now

\* a variant of mark_incomplete that also forgets the time of completion
mark_incomplete_ClearsStamp(task_id) ==
    LET i == IndexOfId(task_id) IN
    IF ~IsNone(get_task_by_id(task_id))
    THEN /\ tasks' = [tasks EXCEPT ![i].completed = FALSE, ![i].last_completed = None]
         /\ call' = [op |-> "mark_incomplete", id |-> task_id, raised |-> FALSE,
                     ret |-> TRUE]
         /\ UNCHANGED <<next_id, now, hist>>
    ELSE /\ call' = [op |-> "mark_incomplete", id |-> task_id, raised |-> FALSE,
                     ret |-> FALSE]
         /\ UNCHANGED <<tasks, next_id, now, hist>>

mark_incomplete(task_id) ==
    LET i == IndexOfId(task_id) IN
    IF ~IsNone(get_task_by_id(task_id))
    THEN /\ tasks' = [tasks EXCEPT ![i].completed = FALSE]
         /\ call' = [op |-> "mark_incomplete", id |-> task_id, raised |-> FALSE,
                     ret |-> TRUE]
         /\ UNCHANGED <<next_id, now, hist>>
    ELSE /\ call' = [op |-> "mark_incomplete", id |-> task_id, raised |-> FALSE,
                     ret |-> FALSE]
         /\ UNCHANGED <<tasks, next_id, now, hist>>

----------------------------------------------------------------------------
(* filter_tasks and the due-date classifier *)

\* truth value of an Optional[str] argument: None and "" are false
Truthy(o) == o # None /\ Val(o) # ""

\* truth value of task.due_date
DueTruthy(task) == task.due_date # None /\ Val(task.due_date) # <<>>

\* task.due_date as a datetime
DueOf(task) == fromisoformat(Val(task.due_date))

KeepStatus(task, status) ==
    IF status = Some("active") THEN ~task.completed
    ELSE IF status = Some("completed") THEN task.completed
    ELSE TRUE

KeepPriority(task, priority) ==
    IF priority # None THEN task.priority = priority ELSE TRUE

\* a variant of KeepTags that asks for all the given tags
KeepTags_All(task, tags) ==
    IF tags # None /\ Val(tags) # <<>>
    THEN \A i \in 1..Len(Val(tags)) : ListIn(Val(tags)[i], task.tags)
    ELSE TRUE

KeepTags(task, tags) ==
    IF tags # None /\ Val(tags) # <<>>
    THEN \E i \in 1..Len(Val(tags)) : ListIn(Val(tags)[i], task.tags)
    ELSE TRUE

KeepUpcoming(task) ==
    /\ DueTruthy(task)
    /\ DtLess(now, DueOf(task))
    /\ TimeDelta(DueOf(task), now).seconds > 3600

KeepDueSoon(task) ==
    /\ DueTruthy(task)
    /\ DtLess(now, DueOf(task))
    /\ TimeDelta(DueOf(task), now).seconds <= 3600

\* a variant of KeepOverdue that keeps completed tasks too
KeepOverdue_WithCompleted(task) ==
    /\ DueTruthy(task)
    /\ DtLess(DueOf(task), now)

KeepOverdue(task) ==
    /\ DueTruthy(task)
    /\ DtLess(DueOf(task), now)
    /\ ~task.completed

KeepDueStatus(task, due_status) ==
    IF Truthy(due_status) /\ due_status # Some("all")
    THEN IF due_status = Some("upcoming") THEN KeepUpcoming(task)
         ELSE IF due_status = Some("due-soon") THEN KeepDueSoon(task)
         ELSE IF due_status = Some("overdue") THEN KeepOverdue(task)
         ELSE TRUE
    ELSE TRUE

KeepRecurrence(task, recurrence) ==
    IF Truthy(recurrence) /\ recurrence # Some("all")
    THEN IF recurrence = Some("none")
         THEN task.recurrence = "" \/ task.recurrence = "none"
         ELSE task.recurrence = Val(recurrence)
    ELSE TRUE

\* the list filter_tasks returns: one list comprehension per criterion, in
\* the order status, priority, tags, due status, recurrence
filter_tasks(f) ==
    LET by_status   == SelectSeq(tasks, LAMBDA t : KeepStatus(t, f.status))
        by_priority == SelectSeq(by_status, LAMBDA t : KeepPriority(t, f.priority))
        by_tags     == SelectSeq(by_priority, LAMBDA t : KeepTags(t, f.tags))
        by_due      == SelectSeq(by_tags, LAMBDA t : KeepDueStatus(t, f.due_status))
    IN  SelectSeq(by_due, LAMBDA t : KeepRecurrence(t, f.recurrence))

\* CLIInterface.get_due_date_status: the status text ("" without a due date)
get_due_date_status(due_date) ==
    IF due_date = None \/ due_date = Some(<<>>) THEN ""
    ELSE LET due == fromisoformat(Val(due_date)) IN
         IF DtLess(due, now) THEN "OVERDUE"
         ELSE IF total_seconds(TimeDelta(due, now)) <= 3600 THEN "DUE-SOON"
         ELSE "UPCOMING"

\* a call of filter_tasks: the store is read, the list is returned
filter_tasks_call(f) ==
    /\ call' = [op |-> "filter_tasks", args |-> f, raised |-> FALSE,
                ret |-> filter_tasks(f)]
    /\ UNCHANGED <<tasks, next_id, now, hist>>

\* a call of get_due_date_status for the due date of a stored task
get_due_date_status_call(due_date) ==
    /\ call' = [op |-> "get_due_date_status", args |-> [due_date |-> due_date],
                raised |-> FALSE, ret |-> get_due_date_status(due_date)]
    /\ UNCHANGED <<tasks, next_id, now, hist>>

----------------------------------------------------------------------------
(* search_tasks *)

\* a variant of search_tasks that compares with the description as stored
search_tasks_CaseSensitive(query) ==
    IF query = None \/ Val(query) = <<>> THEN tasks
    ELSE LET query_lower == strip(lower(Val(query)))
         IN  SelectSeq(tasks, LAMBDA task : StrIn(query_lower, task.description))

\* the list search_tasks returns: every task for a falsy query (None or ""),
\* else the tasks whose lowered description contains the lowered, stripped query
search_tasks(query) ==
    IF query = None \/ Val(query) = <<>> THEN tasks
    ELSE LET query_lower == strip(lower(Val(query)))
         IN  SelectSeq(tasks, LAMBDA task : StrIn(query_lower, lower(task.description)))

search_tasks_call(query) ==
    /\ call' = [op |-> "search_tasks", args |-> [query |-> query], raised |-> FALSE,
                ret |-> search_tasks(query)]
    /\ UNCHANGED <<tasks, next_id, now, hist>>

----------------------------------------------------------------------------
(* sort_tasks *)

\* Python's < on two str, and on two int keys written as one-element lists:
\* the first difference decides, a proper prefix is smaller
SeqLess(a, b) ==
    \E k \in 0..Len(b) :
        /\ k <= Len(a)
        /\ \A j \in 1..k : a[j] = b[j]
        /\ \/ (k = Len(a) /\ k < Len(b))
           \/ (k < Len(a) /\ k < Len(b) /\ a[k + 1] < b[k + 1])

Reverse(xs) == [i \in 1..Len(xs) |-> xs[Len(xs) + 1 - i]]

\* one step of a stable sort: p goes after every element whose key is not greater
RECURSIVE InsertByKey(_, _)
InsertByKey(ps, p) ==
    IF ps = <<>> THEN <<p>>
    ELSE IF SeqLess(p.key, ps[Len(ps)].key)
         THEN Append(InsertByKey(SubSeq(ps, 1, Len(ps) - 1), p), ps[Len(ps)])
         ELSE Append(ps, p)

\* list.sort() on [key, task] pairs: ascending by key, stable
RECURSIVE SortByKey(_)
SortByKey(ps) ==
    IF ps = <<>> THEN <<>>
    ELSE InsertByKey(SortByKey(SubSeq(ps, 1, Len(ps) - 1)), ps[Len(ps)])

\* a variant of sorted that reverses the ascending result
sorted_ReverseAfter(ps, reverse) ==
    IF reverse THEN Reverse(SortByKey(ps)) ELSE SortByKey(ps)

\* sorted(..., reverse=r): with reverse the list is reversed, sorted and
\* reversed again, so that equal keys keep their original order
sorted(ps, reverse) ==
    IF reverse THEN Reverse(SortByKey(Reverse(ps))) ELSE SortByKey(ps)

\* priority_order[task.priority]
priority_order(priority) ==
    IF priority = Some("high") THEN 4
    ELSE IF priority = Some("medium") THEN 3
    ELSE IF priority = Some("low") THEN 2
    ELSE 1

\* datetime.max.isoformat(): "9999-12-31T23:59:59.999999"
DatetimeMaxIso ==
    isoformat(DateTime(9999, 12, 31, 23, 59, 59)) \o <<46, 57, 57, 57, 57, 57, 57>>

\* the key of sort_by="due_date": the text of the due date
due_date_key(task) ==
    IF task.due_date = None THEN DatetimeMaxIso ELSE Val(task.due_date)

\* a variant of due_status_key whose hour ends before 3600 seconds
due_status_key_StrictHour(task) ==
    IF ~DueTruthy(task) THEN 0
    ELSE IF DtLess(DueOf(task), now) THEN 3
    ELSE IF total_seconds(TimeDelta(DueOf(task), now)) < 3600 THEN 2
    ELSE 1

\* the key of sort_by="due_status"
due_status_key(task) ==
    IF ~DueTruthy(task) THEN 0
    ELSE IF DtLess(DueOf(task), now) THEN 3
    ELSE IF total_seconds(TimeDelta(DueOf(task), now)) <= 3600 THEN 2
    ELSE 1

\* the key function of each sort_by; an int key n is the one-element list <<n>>
SortKey(task, sort_by) ==
    IF sort_by = "created_at" THEN task.created_at
    ELSE IF sort_by = "priority" THEN <<priority_order(task.priority)>>
    ELSE IF sort_by = "title" THEN lower(task.description)
    ELSE IF sort_by = "due_date" THEN due_date_key(task)
    ELSE IF sort_by = "due_status" THEN <<due_status_key(task)>>
    ELSE task.created_at

\* the list sort_tasks returns
sort_tasks(sort_by, reverse) ==
    LET ps == [i \in 1..Len(tasks) |->
                   [key |-> SortKey(tasks[i], sort_by), task |-> tasks[i]]]
        ss == sorted(ps, reverse)
    IN  [i \in 1..Len(ss) |-> ss[i].task]

sort_tasks_call(sort_by, reverse) ==
    /\ call' = [op |-> "sort_tasks", args |-> [sort_by |-> sort_by, reverse |-> reverse],
                raised |-> FALSE, ret |-> sort_tasks(sort_by, reverse)]
    /\ UNCHANGED <<tasks, next_id, now, hist>>

----------------------------------------------------------------------------
(* The list objects the queries return *)

\* A list object is [obj, items]: obj is "_tasks" for the list the store owns
\* and "new" for a list built by the call, which nobody else refers to
StoreList == [obj |-> "_tasks", items |-> tasks]

\* a list comprehension and sorted() build a new list
NewList(items) == [obj |-> "new", items |-> items]

\* a variant of list_copy that hands out the list itself
list_copy_SameObject(l) == l

\* list.copy(): a new list with the same items
list_copy(l) == NewList(l.items)

\* get_all_tasks returns self._tasks.copy()
get_all_tasks_list == list_copy(StoreList)

\* search_tasks returns self._tasks.copy() for a falsy query, else the list it built
search_tasks_list(query) ==
    IF query = None \/ Val(query) = <<>> THEN list_copy(StoreList)
    ELSE NewList(search_tasks(query))

\* some criterion of filter_tasks rebuilds the list with a comprehension
FilterRebuilds(f) ==
    \/ f.status \in {Some("active"), Some("completed")}
    \/ f.priority # None
    \/ (f.tags # None /\ Val(f.tags) # <<>>)
    \/ (Truthy(f.due_status) /\ f.due_status # Some("all")
            /\ f.due_status \in {Some("upcoming"), Some("due-soon"), Some("overdue")})
    \/ (Truthy(f.recurrence) /\ f.recurrence # Some("all"))

\* filter_tasks starts from self._tasks.copy() and returns it when no criterion applies
filter_tasks_list(f) ==
    IF FilterRebuilds(f) THEN NewList(filter_tasks(f)) ELSE list_copy(StoreList)

\* sort_tasks returns sorted(self._tasks, ...)
sort_tasks_list(sort_by, reverse) == NewList(sort_tasks(sort_by, reverse))

\* a query: the store is read; the list returned and its identity are kept
query_call(op, args, l) ==
    /\ call' = [op |-> op, args |-> args, raised |-> FALSE, ret |-> l.items,
                ret_obj |-> l.obj]
    /\ UNCHANGED <<tasks, next_id, now, hist>>

\* get_task_by_id as a call: the task found, or None
get_task_by_id_call(task_id) ==
    /\ call' = [op |-> "get_task_by_id", args |-> [task_id |-> task_id],
                raised |-> FALSE, ret |-> get_task_by_id(task_id), ret_obj |-> "task"]
    /\ UNCHANGED <<tasks, next_id, now, hist>>

\* what the caller does to a list it was given: append an item, remove the
\* last one, reverse the order
MutatedList(items, kind) ==
    IF kind = "append" THEN Append(items, items[1])
    ELSE IF kind = "pop" THEN SubSeq(items, 1, Len(items) - 1)
    ELSE Reverse(items)

\* the caller mutates the list the last query returned; the store's list
\* changes with it exactly when it is the same object
mutate_returned(kind) ==
    /\ call.op \in {"get_all_tasks", "search_tasks", "filter_tasks", "sort_tasks"}
    /\ call.ret # <<>>
    /\ tasks' = IF call.ret_obj = "_tasks" THEN MutatedList(call.ret, kind) ELSE tasks
    /\ call' = [op |-> "mutate_returned", args |-> [kind |-> kind, of |-> call.op],
                raised |-> FALSE, ret |-> MutatedList(call.ret, kind)]
    /\ UNCHANGED <<next_id, now, hist>>

----------------------------------------------------------------------------
(* The tag list objects *)

\* In the specification of the tag lists, hist also holds the list objects
\* (those of the calls that stored a list; a call that raises or finds no
\* task stores nothing and its list is not followed further):
\*   lists   - the tag list objects, object k having the items lists[k]
\*   tags_of - tags_of[i] is the object that tasks[i].tags refers to
\*   passed  - the objects the caller built and passed to add_task or update_task
\* and tasks[i].tags is always the items of the object it refers to.

\* a new list object with the given items: the heap and the new reference
tags_new(lists, items) == [lists |-> Append(lists, items), ref |-> Len(lists) + 1]

\* a variant of tags_copy that hands out the list itself
tags_copy_SameObject(lists, k) == [lists |-> lists, ref |-> k]

\* list.copy(): a new list object with the items of object k
tags_copy(lists, k) == tags_new(lists, lists[k])

\* the heap keeps at most MaxLists list objects
MaxLists == 6

\* add_task with the caller's list as an object: tags=None makes the code
\* build [] itself; the task stores tags.copy()
add_task_tags(a) ==
    LET given  == tags_new(hist.lists, IF IsNone(a.tags) THEN <<>> ELSE Val(a.tags))
        stored == tags_copy(given.lists, given.ref)
        passed == IF IsNone(a.tags) THEN hist.passed ELSE hist.passed \cup {given.ref}
    IN  /\ Len(hist.lists) + 2 <= MaxLists
        /\ IF AddRaises(a)
           THEN /\ call' = [op |-> "add_task", args |-> a, raised |-> TRUE, ret |-> None]
                /\ UNCHANGED <<tasks, next_id, now, hist>>
           ELSE /\ next_id <= MaxId
                /\ tasks' = Append(tasks, [AddedTask(a) EXCEPT !.tags = stored.lists[stored.ref]])
                /\ next_id' = next_id + 1
                /\ hist' = [hist EXCEPT !.added = Append(@, AddedTask(a).id),
                                        !.lists = stored.lists,
                                        !.tags_of = Append(@, stored.ref),
                                        !.passed = passed]
                /\ call' = [op |-> "add_task", args |-> a, raised |-> FALSE,
                            ret |-> Some(tasks'[Len(tasks')])]
                /\ UNCHANGED now

\* update_task with the caller's list as an object: when the tags are
\* reached and valid, the task stores new_tags.copy()
update_task_tags(task_id, a) ==
    LET i      == IndexOfId(task_id)
        given  == IF IsNone(a.tags) THEN [lists |-> hist.lists, ref |-> 0]
                  ELSE tags_new(hist.lists, Val(a.tags))
        passed == IF IsNone(a.tags) THEN hist.passed ELSE hist.passed \cup {given.ref}
    IN  /\ Len(hist.lists) + 2 <= MaxLists
        /\ IF IsNone(get_task_by_id(task_id))
           THEN /\ call' = [op |-> "update_task", id |-> task_id, args |-> a,
                            raised |-> FALSE, ret |-> FALSE]
                /\ UNCHANGED <<tasks, next_id, now, hist>>
           ELSE LET out      == UpdateOutcome(tasks[i], a)
                    at_tags  == UpdTags(UpdPriority(UpdDescription(
                                    [raised |-> FALSE, task |-> tasks[i]], a), a), a)
                    assigned == ~IsNone(a.tags) /\ ~at_tags.raised
                    stored   == IF assigned THEN tags_copy(given.lists, given.ref)
                                ELSE [lists |-> given.lists, ref |-> hist.tags_of[i]]
                IN  /\ tasks' = [tasks EXCEPT ![i] =
                                    [out.task EXCEPT !.tags = stored.lists[stored.ref]]]
                    /\ hist' = IF assigned
                               THEN [hist EXCEPT !.lists = stored.lists,
                                                 !.tags_of[i] = stored.ref,
                                                 !.passed = passed]
                               ELSE hist
                    /\ call' = [op |-> "update_task", id |-> task_id, args |-> a,
                                raised |-> out.raised, ret |-> ~out.raised]
                    /\ UNCHANGED <<next_id, now>>

\* mark_complete with the tag lists as objects: the new instance stores
\* task.tags.copy()
mark_complete_tags(task_id) ==
    LET i == IndexOfId(task_id) IN
    IF IsNone(get_task_by_id(task_id))
    THEN /\ call' = [op |-> "mark_complete", id |-> task_id, raised |-> FALSE,
                     ret |-> FALSE]
         /\ UNCHANGED <<tasks, next_id, now, hist>>
    ELSE LET done   == [tasks[i] EXCEPT !.completed = TRUE,
                                        !.last_completed = Some(isoformat(now))]
             stored == tags_copy(hist.lists, hist.tags_of[i])
         IN  /\ IF Spawns(done)
                THEN /\ next_id <= MaxId
                     /\ Len(hist.lists) + 1 <= MaxLists
                     /\ tasks' = Append([tasks EXCEPT ![i] = done],
                                        [SpawnedTask(done) EXCEPT
                                            !.tags = stored.lists[stored.ref]])
                     /\ next_id' = next_id + 1
                     /\ hist' = [hist EXCEPT !.spawned = @ + 1,
                                             !.lists = stored.lists,
                                             !.tags_of = Append(@, stored.ref)]
                ELSE /\ tasks' = [tasks EXCEPT ![i] = done]
                     /\ UNCHANGED <<next_id, hist>>
             /\ call' = [op |-> "mark_complete", id |-> task_id, raised |-> FALSE,
                         ret |-> TRUE]
             /\ UNCHANGED now

\* the caller appends a tag to list object k, a list it passed earlier or the
\* tags of a stored task: every task that refers to the object shows the change
mutate_tags(k, tag) ==
    LET lists == [hist.lists EXCEPT ![k] = Append(@, tag)] IN
    /\ k \in hist.passed \cup {hist.tags_of[i] : i \in 1..Len(tasks)}
    /\ tag \notin {hist.lists[k][n] : n \in 1..Len(hist.lists[k])}
    /\ tasks' = [i \in 1..Len(tasks) |->
                    IF hist.tags_of[i] = k THEN [tasks[i] EXCEPT !.tags = lists[k]]
                    ELSE tasks[i]]
    /\ hist' = [hist EXCEPT !.lists = lists]
    /\ call' = [op |-> "mutate_tags", obj |-> k, raised |-> FALSE, ret |-> lists[k]]
    /\ UNCHANGED <<next_id, now>>

----------------------------------------------------------------------------
(* CLIInterface.parse_tags_input *)

Comma == 44

\* str.split(","): the pieces between the commas, empty pieces included
RECURSIVE split(_)
split(s) ==
    LET at == {i \in 1..Len(s) : s[i] = Comma} IN
    IF at = {} THEN <<s>>
    ELSE LET k == CHOOSE i \in at : \A j \in at : i <= j
         IN  <<SubSeq(s, 1, k - 1)>> \o split(SubSeq(s, k + 1, Len(s)))

\* [tag.strip() for tag in pieces if tag.strip()]
RECURSIVE StrippedNonEmpty(_)
StrippedNonEmpty(pieces) ==
    IF pieces = <<>> THEN <<>>
    ELSE (IF strip(Head(pieces)) # <<>> THEN <<strip(Head(pieces))>> ELSE <<>>)
         \o StrippedNonEmpty(Tail(pieces))

\* a variant of AppendUnique that appends every tag
RECURSIVE AppendUnique_Always(_, _)
AppendUnique_Always(unique_tags, tags) ==
    IF tags = <<>> THEN unique_tags
    ELSE AppendUnique_Always(Append(unique_tags, Head(tags)), Tail(tags))

\* the loop over tags: a tag is appended when it is not in unique_tags yet
RECURSIVE AppendUnique(_, _)
AppendUnique(unique_tags, tags) ==
    IF tags = <<>> THEN unique_tags
    ELSE AppendUnique(IF ListIn(Head(tags), unique_tags) THEN unique_tags
                      ELSE Append(unique_tags, Head(tags)),
                      Tail(tags))

parse_tags_input(tags_input) ==
    IF strip(tags_input) = <<>> THEN <<>>
    ELSE AppendUnique(<<>>, StrippedNonEmpty(split(tags_input)))

parse_tags_input_call ==
    /\ call.op = "input"
    /\ call' = [op |-> "parse_tags_input", args |-> [tags_input |-> call.text],
                raised |-> FALSE, ret |-> parse_tags_input(call.text)]
    /\ UNCHANGED <<tasks, next_id, now, hist>>

----------------------------------------------------------------------------
(* The clock *)

\* the time at which the store is constructed
Epoch == DateTime(2025, 1, 31, 9, 0, 0)

\* time passes between two calls: one second per tick
Tick ==
    /\ total_seconds(TimeDelta(now, Epoch)) < MaxTicks
    /\ now' = AddDelta(now, timedelta(0, 1))
    /\ call' = [op |-> "tick", raised |-> FALSE]
    /\ UNCHANGED <<tasks, next_id, hist>>

----------------------------------------------------------------------------
(* Inputs of the calls *)

\* strftime("%Y-%m-%d %H:%M"), the form the test programs pass as due_date
strftime_ymd_hm(dt) ==
    Fmt4(dt.year) \o <<45>> \o Fmt2(dt.month) \o <<45>> \o Fmt2(dt.day) \o <<32>>
    \o Fmt2(dt.hour) \o <<58>> \o Fmt2(dt.minute)

sEmpty  == <<>>                     \* ""
sBlank  == <<32, 32>>               \* "  "
sPadA   == <<32, 97, 32>>           \* " a "
sAb     == <<65, 98>>               \* "Ab"
sPadNew == <<78, 101, 119, 32>>     \* "New "
sAbPad  == <<65, 98, 32>>           \* "Ab "
tagW    == <<119>>                  \* "w"
tagH    == <<104>>                  \* "h"
tagLong == [i \in 1..31 |-> 120]    \* 31 times "x"
tagMax  == [i \in 1..30 |-> 120]    \* 30 times "x"
tags11  == [i \in 1..11 |-> <<96 + i>>]   \* ["a", "b", ..., "k"]

dueJan31 == isoformat(DateTime(2025, 1, 31, 10, 0, 0))
dueDec31 == strftime_ymd_hm(DateTime(2024, 12, 31, 23, 59, 0))
dueFeb23 == isoformat(DateTime(2024, 2, 23, 8, 30, 15))

AddArg(d, p, t, due, r) ==
    [description |-> d, priority |-> p, tags |-> t, due_date |-> due, recurrence |-> r]

\* calls of add_task that pass validation
AddValid ==
    { AddArg(sPadA, None, None, None, Some("none")),
      AddArg(sAb, Some("high"), Some(<<tagW>>), Some(dueJan31), Some("monthly")),
      AddArg(sAb, Some("low"), Some(<<tagW, tagH>>), Some(dueDec31), Some("daily")),
      AddArg(sPadA, Some("medium"), Some(<<tagMax>>), Some(dueFeb23), None) }

\* calls of add_task with one offending argument each
AddInvalid ==
    { AddArg(sEmpty, None, None, None, Some("none")),
      AddArg(sBlank, Some("high"), Some(<<tagW>>), Some(dueJan31), Some("daily")),
      AddArg(sAb, Some("bogus"), None, None, Some("none")),
      AddArg(sAb, Some("low"), None, Some(dueJan31), Some("bogus")),
      AddArg(sAb, None, Some(tags11), None, Some("none")),
      AddArg(sAb, None, Some(<<tagW, tagLong>>), None, Some("none")),
      AddArg(sAb, None, Some(<<tagW, sBlank>>), None, Some("none")),
      AddArg(sAb, None, Some(<<sEmpty>>), None, Some("none")) }

AddArgs == AddValid \cup AddInvalid

\* ids passed to the calls: every id ever assignable and one never assigned
Ids == 1..(MaxId + 1)

----------------------------------------------------------------------------
(* The store after construction *)

Init ==
    /\ tasks = <<>>
    /\ next_id = 1
    /\ now = Epoch
    /\ call = [op |-> "init", raised |-> FALSE]
    /\ hist = [added |-> <<>>, spawned |-> 0, deleted |-> 0]

----------------------------------------------------------------------------
(* SpecAdd: tasks are added (with valid and invalid arguments) and deleted *)

AddCall == \E a \in AddArgs : add_task(a)

DeleteCall == \E id \in Ids : delete_task(id)

NextAdd ==
    \/ AddCall
    \/ DeleteCall
    \/ Tick

SpecAdd == Init /\ [][NextAdd]_vars

----------------------------------------------------------------------------
(* SpecUpdate: tasks are added and updated, with valid and invalid fields *)

UpdAddArgs ==
    { AddArg(sAb, Some("high"), Some(<<tagW>>), Some(dueJan31), Some("monthly")) }

\* calls of update_task: the fields given, None for a field left out
UpdateValid ==
    { AddArg(None, None, None, None, None),
      AddArg(Some(sPadNew), None, None, None, None),
      AddArg(Some(sPadNew), Some("low"), Some(<<tagH>>), Some(dueFeb23), Some("weekly")) }

UpdateInvalid ==
    { AddArg(Some(sEmpty), None, None, None, None),
      AddArg(Some(sBlank), Some("low"), None, None, None),
      AddArg(None, Some("bogus"), None, None, None),
      AddArg(None, None, Some(tags11), None, None),
      AddArg(None, None, Some(<<tagLong>>), None, None),
      AddArg(None, None, None, None, Some("bogus")),
      AddArg(Some(sPadNew), Some("bogus"), None, None, None),
      AddArg(Some(sPadNew), Some("low"), Some(<<tagH>>), Some(dueFeb23), Some("bogus")) }

UpdateArgs == UpdateValid \cup UpdateInvalid

AddCallU == \E a \in UpdAddArgs : add_task(a)

UpdateCall == \E id \in Ids, a \in UpdateArgs : update_task(id, a)

NextUpdate ==
    \/ AddCallU
    \/ UpdateCall

SpecUpdate == Init /\ [][NextUpdate]_vars

----------------------------------------------------------------------------
(* SpecComplete: plain and recurring tasks are added and completed *)

CompleteAddArgs ==
    { AddArg(sPadA, None, None, None, Some("none")),
      AddArg(sPadA, Some("medium"), Some(<<tagH>>), Some(dueFeb23), None),
      AddArg(sAb, Some("high"), Some(<<tagW>>), Some(dueJan31), Some("monthly")),
      AddArg(sAb, Some("low"), Some(<<tagW, tagH>>), Some(dueDec31), Some("daily")),
      AddArg(sAb, None, None, Some(dueFeb23), Some("weekly")),
      AddArg(sAb, Some("low"), None, None, Some("weekly")) }

AddCallC == \E a \in CompleteAddArgs : add_task(a)

MarkCompleteCall == \E id \in Ids : mark_complete(id)

NextComplete ==
    \/ AddCallC
    \/ MarkCompleteCall

SpecComplete == Init /\ [][NextComplete]_vars

----------------------------------------------------------------------------
(* Spec: every mutating call of the engine on a store of recurring tasks *)

StoreAddArgs ==
    { AddArg(sAb, Some("low"), Some(<<tagW, tagH>>), Some(dueDec31), Some("daily")),
      AddArg(sBlank, None, None, None, Some("none")) }

StoreUpdateArgs ==
    { AddArg(None, None, None, None, None),
      AddArg(Some(sEmpty), None, None, None, None),
      AddArg(None, Some("bogus"), None, None, None),
      AddArg(Some(sAbPad), Some("low"), None, None, None) }

AddCallS == \E a \in StoreAddArgs : add_task(a)

UpdateCallS == \E id \in Ids, a \in StoreUpdateArgs : update_task(id, a)

MarkIncompleteCall == \E id \in Ids : mark_incomplete(id)

Next ==
    \/ AddCallS
    \/ UpdateCallS
    \/ DeleteCall
    \/ MarkCompleteCall
    \/ MarkIncompleteCall
    \/ Tick

Spec == Init /\ [][Next]_vars

----------------------------------------------------------------------------
(* SpecDate: calculate_next_due_date applied to a grid of due dates *)

\* leap, common, century (common) and 400-year (leap) years
GridYears == {2000, 2024, 2025, 2100}

GridDays == {1, 27, 28, 29, 30, 31}

\* (hour, minute, second) of the due dates
GridTimes == {<<0, 0, 0>>, <<10, 0, 0>>, <<23, 59, 59>>}

\* the days of the grid that exist in the calendar
GridYmd ==
    { ymd \in GridYears \X (1..12) \X GridDays : ymd[3] <= DaysInMonth(ymd[1], ymd[2]) }

GridDates ==
    { DateTime(ymd[1], ymd[2], ymd[3], t[1], t[2], t[3]) : ymd \in GridYmd, t \in GridTimes }

\* the text of a due date: isoformat(), or "YYYY-MM-DD HH:MM" when it has no seconds
DueText(dt, iso) == IF iso \/ dt.second # 0 THEN isoformat(dt) ELSE strftime_ymd_hm(dt)

InitDate ==
    /\ tasks = <<>>
    /\ next_id = 1
    /\ now = Epoch
    /\ hist = [added |-> <<>>, spawned |-> 0, deleted |-> 0]
    /\ \E dt \in GridDates, iso \in BOOLEAN,
          r \in {"daily", "weekly", "monthly", "none"} :
           call = [op |-> "input", raised |-> FALSE, date |-> dt,
                   args |-> [current_due_date |-> DueText(dt, iso), recurrence |-> r]]

CalculateCall ==
    /\ call.op = "input"
    /\ call' = [call EXCEPT
                   !.op = "calculate_next_due_date",
                   !.args = [current_due_date |-> call.args.current_due_date,
                             recurrence |-> call.args.recurrence,
                             ret |-> calculate_next_due_date(call.args.current_due_date,
                                                             call.args.recurrence)]]
    /\ UNCHANGED <<tasks, next_id, now, hist>>

NextDate == CalculateCall

SpecDate == InitDate /\ [][NextDate]_vars

----------------------------------------------------------------------------
(* SpecFilter: filter_tasks by status, priority, tags and recurrence *)

FilterArg(st, p, t, d, r) ==
    [status |-> st, priority |-> p, tags |-> t, due_status |-> d, recurrence |-> r]

\* tasks A(high, [w]), B(high, [h]), C(low, [w]) and one with nothing set
FilterAddArgs ==
    { AddArg(sAb, Some("high"), Some(<<tagW>>), None, Some("daily")),
      AddArg(sAb, Some("high"), Some(<<tagH>>), None, Some("none")),
      AddArg(sAb, Some("low"), Some(<<tagW>>), None, Some("weekly")),
      AddArg(sPadA, None, None, None, None) }

\* every combination of these criteria is asked of every store
FilterGrid ==
    { FilterArg(st, p, t, None, r) :
          st \in {None, Some("all"), Some("active"), Some("completed")},
          p  \in {None, Some("high"), Some("low")},
          t  \in {None, Some(<<>>), Some(<<tagW>>), Some(<<tagH, tagW>>), Some(<<sAb>>)},
          r  \in {None, Some("all"), Some("none"), Some("daily")} }

\* the calls whose returned list is kept in `call`
FilterCalls ==
    { FilterArg(None, Some("high"), Some(<<tagW>>), None, None),
      FilterArg(Some("active"), None, Some(<<tagH, tagW>>), None, Some("none")),
      FilterArg(Some("completed"), Some("low"), Some(<<>>), None, Some("all")),
      FilterArg(Some("all"), None, None, None, Some("daily")) }

AddCallF == \E a \in FilterAddArgs : add_task(a)

FilterCall == \E f \in FilterCalls : filter_tasks_call(f)

NextFilter ==
    \/ AddCallF
    \/ MarkCompleteCall
    \/ FilterCall

SpecFilter == Init /\ [][NextFilter]_vars

----------------------------------------------------------------------------
(* SpecDue: due dates around the current time, filtered and classified *)

\* due 3601 seconds, 0 seconds and one day and 30 minutes after Epoch
dueIn3601  == isoformat(DateTime(2025, 1, 31, 10, 0, 1))
dueNow     == isoformat(DateTime(2025, 1, 31, 9, 0, 0))
dueNextDay == strftime_ymd_hm(DateTime(2025, 2, 1, 9, 30, 0))

DueAddArgs ==
    { AddArg(sAb, None, None, Some(due), Some("none")) :
          due \in {dueIn3601, dueNow, dueNextDay} }
    \cup { AddArg(sAb, None, None, None, Some("none")) }

DueCalls ==
    { FilterArg(st, None, None, d, None) :
          st \in {None, Some("completed")},
          d \in {Some("upcoming"), Some("due-soon"), Some("overdue"), Some("all")} }

\* the store is constructed at Epoch, one second later or two days later
InitDue ==
    /\ tasks = <<>>
    /\ next_id = 1
    /\ now \in {Epoch, AddDelta(Epoch, timedelta(0, 1)), AddDelta(Epoch, timedelta(2, 0))}
    /\ call = [op |-> "init", raised |-> FALSE]
    /\ hist = [added |-> <<>>, spawned |-> 0, deleted |-> 0]

AddCallD == \E a \in DueAddArgs : add_task(a)

FilterCallD == \E f \in DueCalls : filter_tasks_call(f)

ClassifyCall == \E i \in 1..Len(tasks) : get_due_date_status_call(tasks[i].due_date)

SortCallD == \E reverse \in BOOLEAN : sort_tasks_call("due_status", reverse)

NextDue ==
    \/ AddCallD
    \/ MarkCompleteCall
    \/ FilterCallD
    \/ ClassifyCall

SpecDue == InitDue /\ [][NextDue]_vars

----------------------------------------------------------------------------
(* SpecDueSort: due dates around the current time, classified and sorted *)

NextDueSort ==
    \/ AddCallD
    \/ ClassifyCall
    \/ SortCallD

SpecDueSort == InitDue /\ [][NextDueSort]_vars

----------------------------------------------------------------------------
(* SpecSearch: tasks are added and deleted, and searched by description *)

sGroceries == <<66, 117, 121, 32, 103, 114, 111, 99, 101, 114, 105, 101, 115>>  \* "Buy groceries"
sAsp       == <<97, 32, 98>>        \* "a b"
qGROC      == <<71, 82, 79, 67>>    \* "GROC"
qASp       == <<65, 32>>            \* "A "
qSpB       == <<32, 98>>            \* " b"
qYSpG      == <<121, 32, 103>>      \* "y g"
qZz        == <<122, 122>>          \* "zz"

SearchAddArgs ==
    { AddArg(d, None, None, None, Some("none")) : d \in {sGroceries, sAb, sAsp, sPadA} }

\* the queries: absent, empty, blank, with and without spaces around them
Queries ==
    { None, Some(sEmpty), Some(sBlank), Some(qGROC), Some(qASp), Some(qSpB),
      Some(qYSpG), Some(qZz), Some(sAb) }

AddCallQ == \E a \in SearchAddArgs : add_task(a)

SearchCall == \E q \in Queries : search_tasks_call(q)

NextSearch ==
    \/ AddCallQ
    \/ DeleteCall
    \/ SearchCall

SpecSearch == Init /\ [][NextSearch]_vars

----------------------------------------------------------------------------
(* SpecSort: tasks with priorities and due dates are added and sorted *)

\* 30 minutes after dueJan31, in the form of strftime("%Y-%m-%d %H:%M")
dueJan31Late == strftime_ymd_hm(DateTime(2025, 1, 31, 10, 30, 0))

SortAddArgs ==
    { AddArg(sAb, None, None, None, Some("none")),
      AddArg(sAb, Some("medium"), None, None, Some("none")),
      AddArg(sAb, Some("high"), None, Some(dueJan31), Some("none")),
      AddArg(sAb, Some("high"), None, Some(dueJan31Late), Some("none")),
      AddArg(sAb, Some("low"), None, Some(dueDec31), Some("none")),
      AddArg(sAb, Some("low"), None, Some(dueFeb23), Some("none")) }

AddCallT == \E a \in SortAddArgs : add_task(a)

SortCall ==
    \E sort_by \in {"priority", "due_date"}, reverse \in BOOLEAN :
        sort_tasks_call(sort_by, reverse)

NextSort ==
    \/ AddCallT
    \/ SortCall

SpecSort == Init /\ [][NextSort]_vars

----------------------------------------------------------------------------
(* SpecEdit: tasks are added, completed and updated with valid fields *)

EditAddArgs ==
    { AddArg(sAb, Some("high"), Some(<<tagW>>), Some(dueJan31), Some("none")) }

\* no field, the description alone, every field
EditUpdateArgs ==
    { AddArg(None, None, None, None, None),
      AddArg(Some(sPadNew), None, None, None, None),
      AddArg(Some(sPadNew), Some("low"), Some(<<tagH>>), Some(dueFeb23), Some("weekly")) }

AddCallE == \E a \in EditAddArgs : add_task(a)

UpdateCallE == \E id \in Ids, a \in EditUpdateArgs : update_task(id, a)

NextEdit ==
    \/ AddCallE
    \/ UpdateCallE
    \/ MarkCompleteCall

SpecEdit == Init /\ [][NextEdit]_vars

----------------------------------------------------------------------------
(* SpecFields: valid and invalid values of every field reach add_task and *)
(* update_task, and tasks are completed                                   *)

tagPadW == <<32, 119, 32>>          \* " w "

\* a padded description, the tag "w" twice, no priority and no recurrence;
\* then a blank description, an unknown priority, an unknown recurrence
FieldAddArgs ==
    { AddArg(sPadA, None, Some(<<tagW, tagPadW, tagW>>), Some(dueDec31), None),
      AddArg(sBlank, None, None, None, None),
      AddArg(sAb, Some("bogus"), None, None, None),
      AddArg(sAb, None, None, None, Some("bogus")) }

\* every field valid; a valid description before an unknown priority; a blank
\* description; an unknown recurrence
FieldUpdateArgs ==
    { AddArg(Some(sPadNew), Some("medium"), Some(<<tagH, tagH>>), None, Some("weekly")),
      AddArg(Some(sPadNew), Some("bogus"), None, None, None),
      AddArg(Some(sBlank), None, None, None, None),
      AddArg(None, None, None, None, Some("bogus")) }

AddCallV == \E a \in FieldAddArgs : add_task(a)

UpdateCallV == \E id \in Ids, a \in FieldUpdateArgs : update_task(id, a)

NextFields ==
    \/ AddCallV
    \/ UpdateCallV
    \/ MarkCompleteCall

SpecFields == Init /\ [][NextFields]_vars

----------------------------------------------------------------------------
(* SpecQuery: the store is queried and the caller changes the lists returned *)

QueryAddArgs ==
    { AddArg(sAb, Some("high"), Some(<<tagW>>), None, Some("none")),
      AddArg(sPadA, Some("low"), None, Some(dueJan31), Some("none")) }

AddCallY == \E a \in QueryAddArgs : add_task(a)

GetAllCall == query_call("get_all_tasks", [none |-> TRUE], get_all_tasks_list)

GetByIdCall == \E id \in Ids : get_task_by_id_call(id)

SearchCallY ==
    \E q \in {None, Some(sEmpty), Some(sAb)} :
        query_call("search_tasks", [query |-> q], search_tasks_list(q))

FilterCallY ==
    \E f \in { FilterArg(None, None, None, None, None),
                FilterArg(Some("all"), None, Some(<<>>), Some("all"), Some("all")),
                FilterArg(None, Some("high"), None, None, None) } :
        query_call("filter_tasks", f, filter_tasks_list(f))

SortCallY ==
    \E sort_by \in {"priority", "created_at"}, reverse \in BOOLEAN :
        query_call("sort_tasks", [sort_by |-> sort_by, reverse |-> reverse],
                   sort_tasks_list(sort_by, reverse))

MutateCall == \E kind \in {"append", "pop", "reverse"} : mutate_returned(kind)

NextQuery ==
    \/ AddCallY
    \/ DeleteCall
    \/ GetAllCall
    \/ GetByIdCall
    \/ SearchCallY
    \/ FilterCallY
    \/ SortCallY
    \/ MutateCall

SpecQuery == Init /\ [][NextQuery]_vars

----------------------------------------------------------------------------
(* SpecTags: tag lists as objects, which the caller changes after the calls *)

tagX == <<120>>                     \* "x"

InitTags ==
    /\ tasks = <<>>
    /\ next_id = 1
    /\ now = Epoch
    /\ call = [op |-> "init", raised |-> FALSE]
    /\ hist = [added |-> <<>>, spawned |-> 0, deleted |-> 0,
               lists |-> <<>>, tags_of |-> <<>>, passed |-> {}]

TagsAddArgs ==
    { AddArg(sAb, None, Some(<<tagW>>), Some(dueDec31), Some("daily")),
      AddArg(sAb, None, None, None, None),
      AddArg(sAb, None, Some(<<sBlank>>), None, None) }

TagsUpdateArgs ==
    { AddArg(None, None, Some(<<tagH>>), None, None),
      AddArg(None, Some("bogus"), Some(<<tagH>>), None, None) }

AddCallG == \E a \in TagsAddArgs : add_task_tags(a)

UpdateCallG == \E id \in Ids, a \in TagsUpdateArgs : update_task_tags(id, a)

MarkCompleteCallG == \E id \in Ids : mark_complete_tags(id)

MutateTagsCall == \E k \in 1..Len(hist.lists) : mutate_tags(k, tagX)

NextTags ==
    \/ AddCallG
    \/ UpdateCallG
    \/ MarkCompleteCallG
    \/ MutateTagsCall

SpecTags == InitTags /\ [][NextTags]_vars

----------------------------------------------------------------------------
(* SpecParse: parse_tags_input on every short text of letters, spaces and commas *)

\* the texts have at most MaxInput characters
MaxInput == 6

TagInputs == UNION {[1..n -> {97, 98, 32, Comma}] : n \in 0..MaxInput}

InitParse ==
    /\ tasks = <<>>
    /\ next_id = 1
    /\ now = Epoch
    /\ hist = [added |-> <<>>, spawned |-> 0, deleted |-> 0]
    /\ \E text \in TagInputs : call = [op |-> "input", raised |-> FALSE, text |-> text]

NextParse == parse_tags_input_call

SpecParse == InitParse /\ [][NextParse]_vars

----------------------------------------------------------------------------
(* SpecLife: every operation that changes the store, on recurring and plain tasks *)

LifeAddArgs ==
    { AddArg(sAb, None, None, Some(dueJan31), Some("monthly")),
      AddArg(sAb, None, None, None, None) }

LifeUpdateArgs ==
    { AddArg(None, None, None, None, Some("none")) }

AddCallL == \E a \in LifeAddArgs : add_task(a)

UpdateCallL == \E id \in Ids, a \in LifeUpdateArgs : update_task(id, a)

NextLife ==
    \/ AddCallL
    \/ UpdateCallL
    \/ DeleteCall
    \/ MarkCompleteCall
    \/ MarkIncompleteCall

SpecLife == Init /\ [][NextLife]_vars

----------------------------------------------------------------------------
(* SpecRecur: recurring tasks are completed, and their clones after them *)

dueDec30 == isoformat(DateTime(2023, 12, 30, 0, 0, 0))

RecurAddArgs ==
    { AddArg(sAb, None, None, Some(dueJan31), Some("monthly")),
      AddArg(sAb, None, None, Some(dueDec30), Some("monthly")),
      AddArg(sAb, None, None, Some(dueDec31), Some("daily")),
      AddArg(sAb, None, None, Some(dueFeb23), Some("weekly")) }

AddCallR == \E a \in RecurAddArgs : add_task(a)

NextRecur ==
    \/ AddCallR
    \/ MarkCompleteCall
    \/ Tick

SpecRecur == Init /\ [][NextRecur]_vars

----------------------------------------------------------------------------
(* Properties *)

\* a str that is empty or consists of whitespace only
Blank(s) == \A i \in 1..Len(s) : IsSpace(s[i])

\* the tasks of a list that carry the given id
WithId(xs, id) == {i \in 1..Len(xs) : xs[i].id = id}

\* C1: on a fresh store, under add and delete calls only, the successful
\* add_task calls return the ids 1, 2, ..., N in call order (a failed add
\* consumes no id, a deleted id is not handed out again)
C1_AddIdsSequential ==
    hist.spawned = 0 => \A i \in 1..Len(hist.added) : hist.added[i] = i

\* an add succeeds after an earlier task was deleted
C1_Witness ==
    /\ call.op = "add_task" /\ ~call.raised
    /\ hist.deleted > 0 /\ Len(hist.added) >= 3

\* the arguments C2 calls invalid
C2_Invalid(a) ==
    \/ Blank(a.description)
    \/ (a.priority # None /\ a.priority \notin {Some("high"), Some("medium"), Some("low")})
    \/ (a.recurrence # None
            /\ a.recurrence \notin {Some("none"), Some("daily"), Some("weekly"), Some("monthly")})
    \/ (a.tags # None
            /\ \/ Len(Val(a.tags)) > 10
               \/ \E i \in 1..Len(Val(a.tags)) :
                      Len(Val(a.tags)[i]) > 30 \/ Blank(Val(a.tags)[i]))

\* C2: an add_task call with an invalid argument raises and leaves the task
\* list and the next id as they were
C2_InvalidAddRejected ==
    [][(call'.op = "add_task" /\ C2_Invalid(call'.args))
           => (call'.raised /\ tasks' = tasks /\ next_id' = next_id)]_vars

\* an add was rejected for its tags on a store that holds tasks
C2_Witness ==
    /\ call.op = "add_task" /\ call.raised /\ C2_Invalid(call.args)
    /\ ~Blank(call.args.description) /\ call.args.tags # None
    /\ Len(tasks) >= 2

\* C3: an update_task call that raises has mutated nothing
C3_FailedUpdateChangesNothing ==
    [][(call'.op = "update_task" /\ call'.raised)
           => (tasks' = tasks /\ next_id' = next_id)]_vars

\* the recurrence values that make a completion spawn a new instance
Recurring == {"daily", "weekly", "monthly"}

\* C4: mark_complete of a stored recurring task with a due date returns True,
\* completes the original in place and appends exactly one new instance with
\* the next id, not completed, never completed, the same description,
\* priority, tags and recurrence, and the next due date; nothing else changes
C4_RecurringCompletionSpawnsOne ==
    [][(/\ call'.op = "mark_complete"
        /\ \E i \in WithId(tasks, call'.id) :
               tasks[i].recurrence \in Recurring /\ tasks[i].due_date # None)
           => LET i == CHOOSE k \in WithId(tasks, call'.id) : TRUE
                  n == Len(tasks)
              IN  /\ call'.ret = TRUE /\ ~call'.raised
                  /\ Len(tasks') = n + 1
                  /\ next_id' = next_id + 1
                  /\ \A j \in 1..n : j # i => tasks'[j] = tasks[j]
                  /\ tasks'[i].completed = TRUE
                  /\ tasks'[i].last_completed # None
                  /\ tasks'[i] = [tasks[i] EXCEPT !.completed = TRUE,
                                     !.last_completed = tasks'[i].last_completed]
                  /\ tasks'[n + 1] =
                         [tasks[i] EXCEPT
                             !.id = next_id,
                             !.completed = FALSE,
                             !.last_completed = None,
                             !.created_at = tasks'[n + 1].created_at,
                             !.due_date = Some(calculate_next_due_date(
                                              Val(tasks[i].due_date), tasks[i].recurrence))]
       ]_vars

\* a recurring task that is not the first of the list was completed and its
\* new instance is the last task
C4_Witness ==
    /\ call.op = "mark_complete" /\ call.ret = TRUE
    /\ Len(tasks) >= 3
    /\ tasks[Len(tasks)].id = next_id - 1
    /\ \E i \in 2..(Len(tasks) - 1) :
           /\ tasks[i].id = call.id
           /\ tasks[i].recurrence \in Recurring /\ tasks[i].completed
           /\ tasks[Len(tasks)].due_date =
                  Some(calculate_next_due_date(Val(tasks[i].due_date), tasks[i].recurrence))
           /\ tasks[Len(tasks)].due_date # tasks[i].due_date
           /\ ~tasks[Len(tasks)].completed

\* the calendar of C5: the number of days of a month
C5_MonthLength(y, m) ==
    IF m = 2
    THEN (IF y % 4 = 0 /\ (y % 100 # 0 \/ y % 400 = 0) THEN 29 ELSE 28)
    ELSE IF m \in {4, 6, 9, 11} THEN 30 ELSE 31

\* the calendar of C5: n calendar days later, one day at a time
RECURSIVE C5_DaysLater(_, _)
C5_DaysLater(dt, n) ==
    IF n = 0 THEN dt
    ELSE C5_DaysLater(
             IF dt.day < C5_MonthLength(dt.year, dt.month)
             THEN [dt EXCEPT !.day = dt.day + 1]
             ELSE IF dt.month < 12
                  THEN [dt EXCEPT !.month = dt.month + 1, !.day = 1]
                  ELSE [dt EXCEPT !.year = dt.year + 1, !.month = 1, !.day = 1],
             n - 1)

\* the calendar of C5: the following month, the day clamped to its length
C5_MonthLater(dt) ==
    LET y == IF dt.month = 12 THEN dt.year + 1 ELSE dt.year
        m == IF dt.month = 12 THEN 1 ELSE dt.month + 1
        d == IF dt.day < C5_MonthLength(y, m) THEN dt.day ELSE C5_MonthLength(y, m)
    IN  [dt EXCEPT !.year = y, !.month = m, !.day = d]

C5_Reference(dt, recurrence) ==
    IF recurrence = "daily" THEN C5_DaysLater(dt, 1)
    ELSE IF recurrence = "weekly" THEN C5_DaysLater(dt, 7)
    ELSE C5_MonthLater(dt)

\* "2025-01-31T10:00:00" and "2025-02-28T10:00:00"
C5_Jan31 == <<50, 48, 50, 53, 45, 48, 49, 45, 51, 49, 84, 49, 48, 58, 48, 48, 58, 48, 48>>

C5_Feb28 == <<50, 48, 50, 53, 45, 48, 50, 45, 50, 56, 84, 49, 48, 58, 48, 48, 58, 48, 48>>

\* C5: for daily, weekly and monthly the next due date is the reference
\* calendar date (one day, seven days, one month with the day clamped to the
\* length of the target month) at the same wall-clock time, written in ISO
\* form; 2025-01-31 10:00 monthly gives 2025-02-28 10:00
C5_NextDateIsCalendarDate ==
    (call.op = "calculate_next_due_date" /\ call.args.recurrence \in Recurring)
        => /\ call.args.ret = isoformat(C5_Reference(call.date, call.args.recurrence))
           /\ (call.args.current_due_date = C5_Jan31 /\ call.args.recurrence = "monthly")
                  => call.args.ret = C5_Feb28

\* the next monthly date of January 31st of a leap year was computed
C5_Witness ==
    /\ call.op = "calculate_next_due_date" /\ call.args.recurrence = "monthly"
    /\ call.date.year = 2024 /\ call.date.month = 1 /\ call.date.day = 31
    /\ fromisoformat(call.args.ret).day = 29

\* C6: update_task, delete_task, mark_complete and mark_incomplete on an id
\* that is not in the store return False, raise nothing and leave the task
\* list and the next id unchanged, whatever fields update_task is given
C6_UnknownIdReturnsFalse ==
    [][(/\ call'.op \in {"update_task", "delete_task", "mark_complete", "mark_incomplete"}
        /\ WithId(tasks, call'.id) = {})
           => (call'.ret = FALSE /\ ~call'.raised /\ tasks' = tasks /\ next_id' = next_id)]_vars

\* update_task was given an invalid priority for an id that was deleted
C6_Witness ==
    /\ call.op = "update_task" /\ call.ret = FALSE
    /\ call.args.priority = Some("bogus")
    /\ call.id < next_id /\ WithId(tasks, call.id) = {}
    /\ Len(tasks) >= 2

\* C7: delete_task of an id in the store returns True and removes exactly the
\* task with that id; the other tasks stay, unchanged and in the same order
C7_DeleteRemovesExactlyOne ==
    [][(call'.op = "delete_task" /\ WithId(tasks, call'.id) # {})
           => /\ call'.ret = TRUE
              /\ WithId(tasks', call'.id) = {}
              /\ tasks' = SelectSeq(tasks, LAMBDA t : t.id # call'.id)
              /\ Len(tasks') = Len(tasks) - 1]_vars

\* a task between two others was deleted, after an earlier deletion
C7_Witness ==
    /\ call.op = "delete_task" /\ call.ret = TRUE
    /\ \E i \in 1..(Len(tasks) - 1) : tasks[i].id < call.id /\ call.id < tasks[i + 1].id

\* the elements of a list
Range(xs) == {xs[i] : i \in 1..Len(xs)}

\* the criteria of C8, all at once
C8_Matches(t, f) ==
    /\ f.status = Some("active") => ~t.completed
    /\ f.status = Some("completed") => t.completed
    /\ f.priority # None => t.priority = f.priority
    /\ f.tags \notin {None, Some(<<>>)} => Range(Val(f.tags)) \cap Range(t.tags) # {}
    /\ f.recurrence \notin {None, Some("all")} => t.recurrence = Val(f.recurrence)

\* the store holds A(high, [w]), B(high, [h]), C(low, [w]) in this order
C8_ExampleStore ==
    /\ Len(tasks) = 3
    /\ tasks[1].priority = Some("high") /\ tasks[1].tags = <<tagW>>
    /\ tasks[2].priority = Some("high") /\ tasks[2].tags = <<tagH>>
    /\ tasks[3].priority = Some("low") /\ tasks[3].tags = <<tagW>>

\* C8: filter_tasks returns, in insertion order, exactly the tasks that meet
\* every given criterion (status, priority, any of the tags, recurrence);
\* filter(priority=high, tags=[w]) on A, B, C is [A]
C8_FilterIsConjunction ==
    /\ \A f \in FilterGrid :
           filter_tasks(f) = SelectSeq(tasks, LAMBDA t : C8_Matches(t, f))
    /\ call.op = "filter_tasks"
           => call.ret = SelectSeq(tasks, LAMBDA t : C8_Matches(t, call.args))
    /\ C8_ExampleStore
           => filter_tasks(FilterArg(None, Some("high"), Some(<<tagW>>), None, None))
                  = <<tasks[1]>>

\* filter(priority=high, tags=[w]) was called on A, B, C and returned [A]
C8_Witness ==
    /\ C8_ExampleStore
    /\ call.op = "filter_tasks"
    /\ call.args = FilterArg(None, Some("high"), Some(<<tagW>>), None, None)
    /\ call.ret = <<tasks[1]>>

\* seconds from now to the due date of a task (negative when it is past)
SecondsUntilDue(t) == total_seconds(TimeDelta(DueOf(t), now))

\* the classes of C9
C9_Class(t) ==
    IF SecondsUntilDue(t) < 0 THEN "overdue"
    ELSE IF SecondsUntilDue(t) <= 3600 THEN "due-soon"
    ELSE "upcoming"

\* C9: filter_tasks(due_status=s), s upcoming or due-soon, returns exactly the
\* tasks with a due date whose class relative to now is s
C9_DueFilterMatchesClass ==
    (/\ call.op = "filter_tasks"
     /\ call.args.due_status \in {Some("upcoming"), Some("due-soon")}
     /\ call.args.status = None)
        => call.ret = SelectSeq(tasks, LAMBDA t :
                          t.due_date # None /\ C9_Class(t) = Val(call.args.due_status))

\* C10: the classifier says OVERDUE for every due date before now, whatever
\* the completed flag, and filter_tasks(due_status=overdue) returns exactly
\* the tasks due before now that are not completed
C10_OverdueClassifierAndFilter ==
    /\ \A i \in 1..Len(tasks) :
           (tasks[i].due_date # None /\ SecondsUntilDue(tasks[i]) < 0)
               => get_due_date_status(tasks[i].due_date) = "OVERDUE"
    /\ (call.op = "get_due_date_status" /\ call.args.due_date # None
            /\ total_seconds(TimeDelta(fromisoformat(Val(call.args.due_date)), now)) < 0)
           => call.ret = "OVERDUE"
    /\ (call.op = "filter_tasks" /\ call.args.due_status = Some("overdue")
            /\ call.args.status = None)
           => call.ret = SelectSeq(tasks, LAMBDA t :
                             /\ t.due_date # None
                             /\ SecondsUntilDue(t) < 0
                             /\ ~t.completed)

\* the overdue filter returned a past-due task and left out a completed one
\* that the classifier calls OVERDUE
C10_Witness ==
    /\ call.op = "filter_tasks" /\ call.args.due_status = Some("overdue")
    /\ call.args.status = None
    /\ call.ret # <<>>
    /\ \E i \in 1..Len(tasks) :
           /\ tasks[i].completed
           /\ get_due_date_status(tasks[i].due_date) = "OVERDUE"
           /\ tasks[i] \notin Range(call.ret)

\* the classes of C11 for an Optional due date
C11_Class(due_date) ==
    IF due_date = None THEN "none"
    ELSE LET ahead == total_seconds(TimeDelta(fromisoformat(Val(due_date)), now))
         IN  IF ahead < 0 THEN "overdue"
             ELSE IF ahead <= 3600 THEN "due-soon"
             ELSE "upcoming"

\* the status text of each class
C11_Label(class) ==
    IF class = "none" THEN ""
    ELSE IF class = "overdue" THEN "OVERDUE"
    ELSE IF class = "due-soon" THEN "DUE-SOON"
    ELSE "UPCOMING"

\* the sort ordinal of each class
C11_Ordinal(class) ==
    IF class = "none" THEN 0
    ELSE IF class = "upcoming" THEN 1
    ELSE IF class = "due-soon" THEN 2
    ELSE 3

\* xs is a rearrangement of the stored tasks (their ids are distinct)
PermutationOfTasks(xs) == Len(xs) = Len(tasks) /\ Range(xs) = Range(tasks)

\* C11: the classifier gives no status without a due date, OVERDUE before
\* now, DUE-SOON from now to 3600 seconds ahead (3600 included) and UPCOMING
\* beyond (3601 included); the key of sort_by="due_status" is the ordinal of
\* the same class (none 0, upcoming 1, due-soon 2, overdue 3) and the sorted
\* list is ordered by it
C11_DueStatusClasses ==
    /\ \A i \in 1..Len(tasks) :
           LET d == tasks[i].due_date IN
           /\ get_due_date_status(d) = C11_Label(C11_Class(d))
           /\ due_status_key(tasks[i]) = C11_Ordinal(C11_Class(d))
           /\ (d # None /\ SecondsUntilDue(tasks[i]) = 3600)
                  => (get_due_date_status(d) = "DUE-SOON" /\ due_status_key(tasks[i]) = 2)
           /\ (d # None /\ SecondsUntilDue(tasks[i]) = 3601)
                  => (get_due_date_status(d) = "UPCOMING" /\ due_status_key(tasks[i]) = 1)
    /\ call.op = "get_due_date_status"
           => call.ret = C11_Label(C11_Class(call.args.due_date))
    /\ (call.op = "sort_tasks" /\ call.args.sort_by = "due_status")
           => /\ PermutationOfTasks(call.ret)
              /\ \A i \in 1..(Len(call.ret) - 1) :
                     LET a == C11_Ordinal(C11_Class(call.ret[i].due_date))
                         b == C11_Ordinal(C11_Class(call.ret[i + 1].due_date))
                     IN  IF call.args.reverse THEN a >= b ELSE a <= b

\* an ascending sort by due status moved a task without a due date in front
\* of a task due exactly 3600 seconds ahead and an overdue one
C11_Witness ==
    /\ call.op = "sort_tasks" /\ call.args.sort_by = "due_status" /\ ~call.args.reverse
    /\ Len(tasks) = 3 /\ call.ret # tasks
    /\ call.ret[1].due_date = None
    /\ call.ret[2].due_date # None /\ SecondsUntilDue(call.ret[2]) = 3600
    /\ get_due_date_status(call.ret[3].due_date) = "OVERDUE"

\* two characters that are equal up to the case of an ASCII letter
C12_SameLetter(c, d) ==
    \/ c = d
    \/ (c \in 65..90 /\ d = c + 32)
    \/ (d \in 65..90 /\ c = d + 32)

\* q occurs in s at some position, the case of letters ignored
C12_Contains(q, s) ==
    \E i \in 1..(Len(s) - Len(q) + 1) :
        \A j \in 1..Len(q) : C12_SameLetter(q[j], s[i + j - 1])

\* q without its leading whitespace
RECURSIVE C12_DropLeading(_)
C12_DropLeading(q) ==
    IF q # <<>> /\ IsSpace(q[1]) THEN C12_DropLeading(Tail(q)) ELSE q

\* q without its leading and trailing whitespace
C12_Trimmed(q) == Reverse(C12_DropLeading(Reverse(C12_DropLeading(q))))

\* C12 as stated: search_tasks returns, in insertion order, exactly the tasks
\* whose description contains the query as given (spaces included), the case
\* ignored; an empty or absent query returns all tasks
C12_SearchQueryAsGiven ==
    call.op = "search_tasks"
        => call.ret = IF call.args.query \in {None, Some(<<>>)} THEN tasks
                      ELSE SelectSeq(tasks, LAMBDA t :
                               C12_Contains(Val(call.args.query), t.description))

\* C12 amended: search_tasks returns, in insertion order, exactly the tasks
\* whose description contains the query without its leading and trailing
\* whitespace, the case ignored; an empty or absent query returns all tasks
\* (and so does a query of whitespace only); search("GROC") finds
\* "Buy groceries"
C12_SearchTrimmedQuery ==
    /\ call.op = "search_tasks"
           => call.ret = IF call.args.query \in {None, Some(<<>>)} THEN tasks
                         ELSE SelectSeq(tasks, LAMBDA t :
                                  C12_Contains(C12_Trimmed(Val(call.args.query)),
                                               t.description))
    /\ (call.op = "search_tasks" /\ call.args.query = Some(qGROC))
           => \A i \in 1..Len(tasks) :
                  tasks[i].description = sGroceries => tasks[i] \in Range(call.ret)
    /\ (call.op = "search_tasks" /\ call.args.query = Some(sBlank)) => call.ret = tasks

\* search("A ") returned a task described "Ab" and left out "Buy groceries"
C12_Witness ==
    /\ call.op = "search_tasks" /\ call.args.query = Some(qASp)
    /\ Len(tasks) = 3 /\ Len(call.ret) = 2
    /\ tasks[1].description = sGroceries
    /\ call.ret[1].description = sAb

\* the ordinal of a priority in C13
C13_Ordinal(priority) ==
    CASE priority = Some("high")   -> 4
      [] priority = Some("medium") -> 3
      [] priority = Some("low")    -> 2
      [] priority = None           -> 1

\* the position of a stored task in the collection
PositionOf(t) == CHOOSE i \in 1..Len(tasks) : tasks[i] = t

\* C13: sort_tasks("priority") returns a permutation of the stored tasks,
\* ordered by the ordinal high 4, medium 3, low 2, absent 1 (non-decreasing
\* ascending, non-increasing descending); in both directions tasks of equal
\* priority keep their insertion order
C13_PrioritySortStable ==
    (call.op = "sort_tasks" /\ call.args.sort_by = "priority")
        => /\ PermutationOfTasks(call.ret)
           /\ \A i, j \in 1..Len(call.ret) :
                  i < j =>
                      LET a == C13_Ordinal(call.ret[i].priority)
                          b == C13_Ordinal(call.ret[j].priority)
                      IN  /\ IF call.args.reverse THEN a >= b ELSE a <= b
                          /\ a = b => PositionOf(call.ret[i]) < PositionOf(call.ret[j])

\* a descending sort moved two tasks of priority high, in their insertion
\* order, in front of a task added before them
C13_Witness ==
    /\ call.op = "sort_tasks" /\ call.args.sort_by = "priority" /\ call.args.reverse
    /\ Len(tasks) = 3 /\ call.ret # tasks
    /\ call.ret[1].priority = Some("high") /\ call.ret[2].priority = Some("high")
    /\ PositionOf(call.ret[1]) = 2 /\ PositionOf(call.ret[2]) = 3
    /\ call.ret[3] = tasks[1]

\* C14: sort_tasks("due_date") puts the tasks that have a due date in
\* chronological order (reversed when descending) and every task without a
\* due date after all of them ascending, before all of them descending
C14_DueDateSortChronological ==
    (call.op = "sort_tasks" /\ call.args.sort_by = "due_date")
        => /\ PermutationOfTasks(call.ret)
           /\ \A i, j \in 1..Len(call.ret) :
                  i < j =>
                      LET a == call.ret[i].due_date
                          b == call.ret[j].due_date
                      IN  /\ (a # None /\ b # None)
                                 => IF call.args.reverse
                                    THEN ~DtLess(fromisoformat(Val(a)), fromisoformat(Val(b)))
                                    ELSE ~DtLess(fromisoformat(Val(b)), fromisoformat(Val(a)))
                          /\ (a = None /\ b # None) => call.args.reverse
                          /\ (a # None /\ b = None) => ~call.args.reverse

\* C15: a successful update_task(id, ...) leaves get_task_by_id(id) with the
\* description given, trimmed, and with each other field given set to the
\* value given; the fields not given and id, completed, created_at and
\* last_completed keep their values, and so does every other task
C15_UpdateSetsGivenFieldsOnly ==
    [][(call'.op = "update_task" /\ ~call'.raised /\ call'.ret = TRUE)
           => LET i   == CHOOSE k \in WithId(tasks, call'.id) : TRUE
                  a   == call'.args
                  old == tasks[i]
                  new == tasks'[i]
              IN  /\ WithId(tasks, call'.id) = {i} /\ WithId(tasks', call'.id) = {i}
                  /\ Len(tasks') = Len(tasks) /\ next_id' = next_id
                  /\ \A j \in 1..Len(tasks) : j # i => tasks'[j] = tasks[j]
                  /\ new.id = old.id /\ new.completed = old.completed
                  /\ new.created_at = old.created_at
                  /\ new.last_completed = old.last_completed
                  /\ new.description = IF a.description = None THEN old.description
                                       ELSE C12_Trimmed(Val(a.description))
                  /\ new.priority = IF a.priority = None THEN old.priority ELSE a.priority
                  /\ new.tags = IF a.tags = None THEN old.tags ELSE Val(a.tags)
                  /\ new.due_date = IF a.due_date = None THEN old.due_date ELSE a.due_date
                  /\ new.recurrence = IF a.recurrence = None THEN old.recurrence
                                      ELSE Val(a.recurrence)
       ]_vars

\* update_task(id, "New ") has just renamed a completed task that is not the
\* only one: its description is "New" and its priority is still high
C15_Witness ==
    /\ call.op = "update_task" /\ ~call.raised /\ call.ret = TRUE
    /\ call.args.description = Some(sPadNew) /\ call.args.priority = None
    /\ Len(tasks) >= 2
    /\ \E i \in 1..Len(tasks) :
           /\ tasks[i].id = call.id
           /\ tasks[i].description = <<78, 101, 119>>
           /\ tasks[i].priority = Some("high")
           /\ tasks[i].completed /\ tasks[i].last_completed # None

\* the update calls tried in C16: the priority and the due date are left out
\* (None), or given as a member of the enumeration, "", "none", "bogus",
\* respectively as "" or a timestamp
C16_Calls ==
    { AddArg(None, p, None, d, None) :
          p \in {None, Some("high"), Some("medium"), Some("low"), Some(""), Some("none"),
                 Some("bogus")},
          d \in {None, Some(sEmpty), Some(dueFeb23)} }

\* C16: for a stored task with a priority there is an update_task call that
\* passes validation and leaves the task without a priority, and likewise for
\* the due date, while a call that gives no field changes nothing
C16_UpdateCanClear ==
    \A i \in 1..Len(tasks) :
        /\ tasks[i].priority # None
               => \E a \in C16_Calls :
                      /\ ~UpdateOutcome(tasks[i], a).raised
                      /\ UpdateOutcome(tasks[i], a).task.priority = None
        /\ tasks[i].due_date # None
               => \E a \in C16_Calls :
                      /\ ~UpdateOutcome(tasks[i], a).raised
                      /\ UpdateOutcome(tasks[i], a).task.due_date = None
        /\ UpdateOutcome(tasks[i], AddArg(None, None, None, None, None)).task = tasks[i]

\* the fields of a task other than `completed`
OtherThanCompleted(t) ==
    <<t.id, t.description, t.priority, t.tags, t.created_at, t.due_date, t.recurrence,
      t.last_completed>>

\* C17: mark_incomplete of a stored task returns True and leaves it not
\* completed; its last_completed, due_date, recurrence and other fields, the
\* other tasks (a clone spawned earlier included), their number and the next
\* id are unchanged
C17_MarkIncompleteOnlyClearsFlag ==
    [][(call'.op = "mark_incomplete" /\ WithId(tasks, call'.id) # {})
           => LET i == CHOOSE k \in WithId(tasks, call'.id) : TRUE
              IN  /\ call'.ret = TRUE /\ ~call'.raised
                  /\ Len(tasks') = Len(tasks) /\ next_id' = next_id
                  /\ \A j \in 1..Len(tasks) : j # i => tasks'[j] = tasks[j]
                  /\ tasks'[i].completed = FALSE
                  /\ OtherThanCompleted(tasks'[i]) = OtherThanCompleted(tasks[i])
       ]_vars

\* a recurring task was completed, which spawned a clone, and then marked
\* incomplete: it is not completed, keeps the time of its completion, and the
\* clone is still there
C17_Witness ==
    /\ call.op = "mark_incomplete" /\ call.ret = TRUE
    /\ hist.spawned >= 1 /\ hist.deleted = 0 /\ Len(tasks) >= 2
    /\ \E i \in 1..Len(tasks) :
           /\ tasks[i].id = call.id
           /\ ~tasks[i].completed /\ tasks[i].last_completed # None
           /\ tasks[i].recurrence = "daily"
           /\ \E j \in (i + 1)..Len(tasks) :
                  tasks[j].due_date =
                      Some(calculate_next_due_date(Val(tasks[i].due_date), "daily"))

\* C18: mark_complete of a stored task whose recurrence is none or that has
\* no due date returns True, completes the task and stamps last_completed
\* with the current time; no task is added: the number of tasks, the next
\* id, the other fields of the task and the other tasks are unchanged
C18_PlainCompletionAddsNothing ==
    [][(/\ call'.op = "mark_complete"
        /\ \E i \in WithId(tasks, call'.id) :
               tasks[i].recurrence = "none" \/ tasks[i].due_date = None)
           => LET i == CHOOSE k \in WithId(tasks, call'.id) : TRUE
              IN  /\ call'.ret = TRUE /\ ~call'.raised
                  /\ Len(tasks') = Len(tasks) /\ next_id' = next_id
                  /\ \A j \in 1..Len(tasks) : j # i => tasks'[j] = tasks[j]
                  /\ tasks'[i].completed = TRUE
                  /\ tasks'[i].last_completed # None
                  /\ fromisoformat(Val(tasks'[i].last_completed)) = now
                  /\ [tasks'[i] EXCEPT !.completed = tasks[i].completed,
                                       !.last_completed = tasks[i].last_completed]
                         = tasks[i]
       ]_vars

\* a weekly task without a due date was completed in a store of three tasks
\* and no task was added
C18_Witness ==
    /\ call.op = "mark_complete" /\ call.ret = TRUE
    /\ Len(tasks) = 3 /\ next_id = 4 /\ hist.spawned = 0
    /\ \E i \in 1..Len(tasks) :
           /\ tasks[i].id = call.id
           /\ tasks[i].recurrence = "weekly" /\ tasks[i].due_date = None
           /\ tasks[i].completed /\ tasks[i].last_completed # None

\* the ids of the tasks of a list, in its order
IdsOf(xs) == [i \in 1..Len(xs) |-> xs[i].id]

\* C19: a successful add_task appends exactly one task at the end of the
\* collection and returns it: it has the next id, the description given,
\* trimmed, completed False, no last_completed, the priority, due date and
\* tags given (no tags when omitted) and the recurrence given ("none" when
\* absent); the tasks stored before are unchanged and get_all_tasks lists the
\* tasks in the order of their insertion
C19_AddAppendsTheTask ==
    [][(call'.op = "add_task" /\ ~call'.raised)
           => LET a == call'.args
                  t == Val(call'.ret)
              IN  /\ call'.ret # None
                  /\ tasks' = Append(tasks, t)
                  /\ get_all_tasks' = Append(get_all_tasks, t)
                  /\ t.id = next_id /\ next_id' = next_id + 1
                  /\ t.description = C12_Trimmed(a.description)
                  /\ t.completed = FALSE /\ t.last_completed = None
                  /\ t.priority = a.priority
                  /\ t.due_date = a.due_date
                  /\ t.tags = IF a.tags = None THEN <<>> ELSE Val(a.tags)
                  /\ t.recurrence = IF a.recurrence = None THEN "none" ELSE Val(a.recurrence)
                  /\ IdsOf(get_all_tasks') =
                         SelectSeq(hist'.added, LAMBDA id : WithId(tasks', id) # {})
       ]_vars

\* add_task(" a ") without tags succeeded after a deletion,
\* on a store that held tasks: the new task "a" is the last one
C19_Witness ==
    /\ call.op = "add_task" /\ ~call.raised
    /\ call.args.description = sPadA /\ call.args.tags = None
    /\ hist.deleted > 0 /\ Len(tasks) >= 2
    /\ tasks[Len(tasks)] = Val(call.ret)
    /\ tasks[Len(tasks)].description = <<97>> /\ tasks[Len(tasks)].tags = <<>>
    /\ tasks[Len(tasks)].id = next_id - 1

\* the ids of the stored tasks are positive integers, strictly increasing in
\* the order of the collection (hence pairwise distinct) and below the next id
C20_IdsOk ==
    /\ \A i \in 1..Len(tasks) :
           tasks[i].id \in Nat /\ tasks[i].id >= 1 /\ tasks[i].id < next_id
    /\ \A i, j \in 1..Len(tasks) : i < j => tasks[i].id < tasks[j].id
    /\ \A i, j \in 1..Len(tasks) : i # j => tasks[i].id # tasks[j].id

\* C20: in every state reached by add_task, update_task, delete_task,
\* mark_complete and mark_incomplete calls the ids of the stored tasks are
\* pairwise distinct positive integers, strictly increasing in collection
\* order and smaller than the next id; the next id never decreases (the
\* store is empty at first, so the ids are stated for the state after every call)
C20_IdsDistinctIncreasing ==
    [][C20_IdsOk' /\ next_id' >= next_id]_vars

\* after a deletion and the spawning of a clone the store holds tasks whose
\* ids do not start at 1 and the next id is past every id handed out
C20_Witness ==
    /\ hist.deleted >= 1 /\ hist.spawned >= 1
    /\ Len(tasks) >= 2 /\ tasks[1].id > 1
    /\ next_id = Len(hist.added) + hist.spawned + 1
    /\ call.op \in {"mark_complete", "add_task"} /\ call.ret # FALSE /\ ~call.raised

\* C21: every stored task, clones included, has a description that is not
\* empty, not blank and equal to its trimmed form, a priority that is high,
\* medium, low or absent, and a recurrence that is none, daily, weekly or
\* monthly (an absent recurrence given to add_task is stored as none)
C21_FieldsValid ==
    /\ \A i \in 1..Len(tasks) :
           /\ tasks[i].description # <<>> /\ ~Blank(tasks[i].description)
           /\ tasks[i].description = C12_Trimmed(tasks[i].description)
           /\ tasks[i].priority \in {None, Some("high"), Some("medium"), Some("low")}
           /\ tasks[i].recurrence \in {"none", "daily", "weekly", "monthly"}
    /\ (call.op = "add_task" /\ ~call.raised /\ call.args.recurrence = None)
           => Val(call.ret).recurrence = "none"

\* the store holds a task added without a recurrence, a task whose update
\* failed after its description was replaced, and a clone of a completed task
C21_Witness ==
    /\ Len(tasks) = 3 /\ hist.spawned >= 1
    /\ \E i \in 1..Len(tasks) : tasks[i].recurrence = "none" /\ tasks[i].priority = None
    /\ \E i \in 1..Len(tasks) :
           tasks[i].description = <<78, 101, 119>> /\ tasks[i].priority = None
    /\ \E i \in 1..Len(tasks) : tasks[i].recurrence = "weekly" /\ tasks[i].completed

\* C22: the tag list of every stored task has at most 10 entries, each entry
\* is not empty after trimming and at most 30 characters long, and no tag
\* occurs twice in the list of one task
C22_TagsValidAndUnique ==
    \A i \in 1..Len(tasks) :
        LET tags == tasks[i].tags IN
        /\ Len(tags) <= 10
        /\ \A k \in 1..Len(tags) : C12_Trimmed(tags[k]) # <<>> /\ Len(tags[k]) <= 30
        /\ \A k, l \in 1..Len(tags) : k # l => tags[k] # tags[l]

\* the id and the creation time of each task of a list, in its order
StampsOf(xs) == [i \in 1..Len(xs) |-> <<xs[i].id, xs[i].created_at>>]

\* xs without its k-th element
WithoutAt(xs, k) == SubSeq(xs, 1, k - 1) \o SubSeq(xs, k + 1, Len(xs))

\* C23: no call changes the id or the created_at of a task in the store:
\* across update_task, mark_complete and mark_incomplete the tasks stored
\* before keep both (a clone is appended after them), and delete_task removes
\* one task and leaves both to all the others
C23_IdAndCreatedAtImmutable ==
    [][IF call'.op = "delete_task" /\ call'.ret = TRUE
       THEN \E k \in 1..Len(tasks) :
                tasks[k].id = call'.id /\ StampsOf(tasks') = WithoutAt(StampsOf(tasks), k)
       ELSE /\ Len(tasks') >= Len(tasks)
            /\ SubSeq(StampsOf(tasks'), 1, Len(tasks)) = StampsOf(tasks)
      ]_vars

\* a task created before the clock advanced was updated with a description
\* after it: it still carries the time of its creation
C23_Witness ==
    /\ call.op = "update_task" /\ call.ret = TRUE /\ call.args.description # None
    /\ now # Epoch /\ Len(tasks) >= 2
    /\ \E i \in 1..Len(tasks) :
           /\ tasks[i].id = call.id
           /\ fromisoformat(tasks[i].created_at) = Epoch
           /\ tasks[i].completed

\* the calls that only read the store
Queries_C24 == {"get_all_tasks", "get_task_by_id", "search_tasks", "filter_tasks", "sort_tasks"}

\* C24: get_all_tasks, get_task_by_id, search_tasks, filter_tasks and
\* sort_tasks leave the tasks, their order and the next id unchanged, and the
\* lists they return are new lists: when the caller appends to, removes from
\* or reorders a returned list, the store (what get_all_tasks returns next)
\* stays as it was
C24_QueriesLeaveStoreAlone ==
    [][/\ call'.op \in Queries_C24
           => (tasks' = tasks /\ next_id' = next_id)
       /\ (call'.op \in Queries_C24 \ {"get_task_by_id"}) => call'.ret_obj = "new"
       /\ call'.op = "get_all_tasks" => call'.ret = tasks
       /\ call'.op = "mutate_returned"
           => (tasks' = tasks /\ next_id' = next_id /\ get_all_tasks_list'.items = tasks)
      ]_vars

\* the caller reversed the list of all tasks that a search with an empty
\* query returned, and the store still has its two tasks in insertion order
C24_Witness ==
    /\ call.op = "mutate_returned" /\ call.args.kind = "reverse"
    /\ call.args.of = "search_tasks"
    /\ Len(tasks) = 2 /\ call.ret = Reverse(tasks) /\ call.ret # tasks
    /\ tasks[1].id < tasks[2].id

\* the positions of the stored tasks that the step changed
C25_Changed == {i \in 1..Len(tasks) : tasks'[i] # tasks[i]}

\* C25: a stored tag list is neither the list the caller passed to add_task
\* or update_task nor the list of another task: when the caller changes a
\* list it passed, no stored task changes, and when the tags of one stored
\* task are changed in place (an original or its clone), that task alone changes
C25_TagListsNotShared ==
    [][call'.op = "mutate_tags"
       => /\ Len(tasks') = Len(tasks)
          /\ Cardinality(C25_Changed) = IF call'.obj \in hist.passed THEN 0 ELSE 1
      ]_vars

\* the tags of an original were changed in place after mark_complete made its
\* clone, and the clone still has the tags it was made with; the list passed
\* to add_task was changed too and the original did not follow it
C25_Witness ==
    /\ call.op = "mutate_tags"
    /\ Len(tasks) = 2 /\ hist.spawned = 1
    /\ tasks[1].completed /\ ~tasks[2].completed
    /\ call.obj = hist.tags_of[1]
    /\ tasks[1].tags = <<tagW, tagX>> /\ tasks[2].tags = <<tagW>>
    /\ \E k \in hist.passed : hist.lists[k] = <<tagW, tagX>> /\ k # call.obj

\* the pieces of a text: what lies between two neighbouring boundaries, the
\* boundaries being the commas, the position before the text and the one after
C26_Bounds(s) == {0, Len(s) + 1} \cup {i \in 1..Len(s) : s[i] = Comma}

C26_Starts(s) == C26_Bounds(s) \ {Len(s) + 1}

\* the trimmed piece that starts after boundary lo
C26_PieceAt(s, lo) ==
    LET hi == CHOOSE h \in C26_Bounds(s) :
                  h > lo /\ \A g \in C26_Bounds(s) : g > lo => h <= g
    IN  strip(SubSeq(s, lo + 1, hi - 1))

\* where a tag occurs first in the text
C26_FirstAt(s, tag) ==
    CHOOSE lo \in C26_Starts(s) :
        /\ C26_PieceAt(s, lo) = tag
        /\ \A g \in C26_Starts(s) : C26_PieceAt(s, g) = tag => lo <= g

\* ",".join(xs)
RECURSIVE C26_Joined(_)
C26_Joined(xs) ==
    IF xs = <<>> THEN <<>>
    ELSE IF Len(xs) = 1 THEN xs[1]
    ELSE xs[1] \o <<Comma>> \o C26_Joined(Tail(xs))

\* C26: parse_tags_input returns the trimmed, non-empty pieces of the
\* comma-separated text, each once, in the order of their first occurrence
\* (nothing for a blank text); no tag of the result is empty or repeated, and
\* parsing the result joined by commas gives the result again
C26_ParseTags ==
    call.op = "parse_tags_input" =>
        LET s == call.args.tags_input
            r == call.ret
        IN  /\ Blank(s) => r = <<>>
            /\ Range(r) = {C26_PieceAt(s, lo) : lo \in C26_Starts(s)} \ {<<>>}
            /\ \A a, b \in 1..Len(r) :
                   a < b => C26_FirstAt(s, r[a]) < C26_FirstAt(s, r[b])
            /\ \A a \in 1..Len(r) : r[a] # <<>>
            /\ \A a, b \in 1..Len(r) : a # b => r[a] # r[b]
            /\ parse_tags_input(C26_Joined(r)) = r

\* "b, a,b" gives ["b", "a"]: pieces trimmed, the repeated tag dropped, the
\* order of first occurrence kept
C26_Witness ==
    /\ call.op = "parse_tags_input"
    /\ call.args.tags_input = <<98, Comma, 32, 97, Comma, 98>>
    /\ call.ret = <<(<<98>>), (<<97>>)>>

\* the stored task with the given id is new in the step, or had no
\* last_completed before it
C27_NoStampBefore(id) ==
    \A k \in 1..Len(tasks) : tasks[k].id = id => tasks[k].last_completed = None

\* C27: in every reachable state a completed task has last_completed set; a
\* task that add_task or a recurring mark_complete has just appended is not
\* completed and has no last_completed, and a task gets a last_completed only
\* from a mark_complete of the task itself
C27_CompletedHasStamp ==
    /\ [](\A i \in 1..Len(tasks) : tasks[i].completed => tasks[i].last_completed # None)
    /\ [][\A i \in 1..Len(tasks') :
              /\ (\A k \in 1..Len(tasks) : tasks[k].id # tasks'[i].id)
                     => (~tasks'[i].completed /\ tasks'[i].last_completed = None)
              /\ (tasks'[i].last_completed # None /\ C27_NoStampBefore(tasks'[i].id))
                     => /\ call'.op = "mark_complete" /\ call'.id = tasks'[i].id
                        /\ tasks'[i].completed
                        /\ \E k \in 1..Len(tasks) : tasks[k].id = tasks'[i].id
         ]_vars

\* a completed original with its time of completion next to its clone, which
\* has none, and a task that was marked incomplete again and kept its own
C27_Witness ==
    /\ call.op = "mark_complete" /\ call.ret = TRUE /\ hist.spawned >= 1
    /\ \E i, j, k \in 1..Len(tasks) :
           /\ tasks[i].id = call.id /\ tasks[i].completed
           /\ tasks[i].last_completed # None
           /\ j = Len(tasks) /\ tasks[j].id = next_id - 1 /\ j # i
           /\ ~tasks[j].completed /\ tasks[j].last_completed = None
           /\ k # i /\ ~tasks[k].completed /\ tasks[k].last_completed # None

\* 1 when the condition holds, else 0
C28_One(cond) == IF cond THEN 1 ELSE 0

\* the step is a successful add_task
C28_Added == call'.op = "add_task" /\ ~call'.raised

\* the step is a successful mark_complete of a task that had, when called, a
\* recurrence of daily, weekly or monthly and a due date
C28_CompletedRecurring ==
    /\ call'.op = "mark_complete" /\ call'.ret = TRUE
    /\ \E k \in 1..Len(tasks) :
           /\ tasks[k].id = call'.id
           /\ tasks[k].recurrence \in {"daily", "weekly", "monthly"}
           /\ tasks[k].due_date \notin {None, Some(<<>>)}

\* the step is a successful delete_task
C28_Deleted == call'.op = "delete_task" /\ call'.ret = TRUE

\* C28: the number of stored tasks is the number of successful adds plus the
\* number of successful mark_complete calls on a task that then had a
\* recurrence of daily, weekly or monthly and a due date, minus the number of
\* successful deletes, and next id - 1 is the sum of the first two: each call
\* counts one for its term, a mark_complete of such a task whether or not the
\* task was completed before
C28_TaskCount ==
    /\ [](/\ Len(tasks) = Len(hist.added) + hist.spawned - hist.deleted
          /\ next_id - 1 = Len(hist.added) + hist.spawned)
    /\ [][/\ Len(hist.added') - Len(hist.added) = C28_One(C28_Added)
          /\ hist.spawned' - hist.spawned = C28_One(C28_CompletedRecurring)
          /\ hist.deleted' - hist.deleted = C28_One(C28_Deleted)
          /\ Len(tasks') - Len(tasks)
                = C28_One(C28_Added) + C28_One(C28_CompletedRecurring) - C28_One(C28_Deleted)
          /\ next_id' - next_id = C28_One(C28_Added) + C28_One(C28_CompletedRecurring)
         ]_vars

\* the same recurring task was completed twice: two clones with the same due
\* date follow it, after one add and no delete
C28_Witness ==
    /\ call.op = "mark_complete" /\ call.ret = TRUE /\ call.id = 1
    /\ Len(tasks) = 3 /\ Len(hist.added) = 1 /\ hist.spawned = 2 /\ hist.deleted = 0
    /\ tasks[1].id = 1 /\ tasks[1].completed /\ tasks[1].recurrence = "monthly"
    /\ tasks[2].due_date = tasks[3].due_date /\ tasks[2].due_date # tasks[1].due_date
    /\ ~tasks[2].completed /\ ~tasks[3].completed
    /\ next_id = 4

\* the step is a mark_complete that appended a clone
C29_Spawned == call'.op = "mark_complete" /\ call'.ret = TRUE /\ Len(tasks') = Len(tasks) + 1

\* the position of the task the step completed
C29_Origin == CHOOSE k \in 1..Len(tasks) : tasks[k].id = call'.id

\* the due date the completed task had when called, and the clone's
C29_DueBefore == fromisoformat(Val(tasks[C29_Origin].due_date))

C29_DueOfClone == fromisoformat(Val(tasks'[Len(tasks')].due_date))

\* C29: when mark_complete appends a clone, the clone is due strictly later
\* than the completed task was due when called: one day later for daily,
\* seven days for weekly, 28 to 31 days for monthly, at the same time of day,
\* whatever the time of the completion; the due date of the completed task
\* stays as it was
C29_CloneDueLater ==
    [][C29_Spawned =>
           LET r     == tasks[C29_Origin].recurrence
               delta == TimeDelta(C29_DueOfClone, C29_DueBefore)
           IN  /\ DtLess(C29_DueBefore, C29_DueOfClone)
               /\ delta.seconds = 0
               /\ r \in {"daily", "weekly", "monthly"}
               /\ r = "daily" => delta.days = 1
               /\ r = "weekly" => delta.days = 7
               /\ r = "monthly" => delta.days \in 28..31
               /\ tasks'[C29_Origin].due_date = tasks[C29_Origin].due_date
      ]_vars

\* a daily task due on 2024-12-31 23:59 was completed after the clock had
\* advanced: its clone is due on 2025-01-01 at 23:59, the task as before
C29_Witness ==
    /\ call.op = "mark_complete" /\ call.ret = TRUE /\ now # Epoch
    /\ Len(tasks) >= 2
    /\ \E i \in 1..Len(tasks) :
           /\ tasks[i].id = call.id /\ tasks[i].recurrence = "daily"
           /\ tasks[i].due_date = Some(dueDec31)
           /\ tasks[i].last_completed = Some(isoformat(now))
    /\ tasks[Len(tasks)].id = next_id - 1
    /\ tasks[Len(tasks)].due_date = Some(isoformat(DateTime(2025, 1, 1, 23, 59, 0)))
    /\ tasks[Len(tasks)].created_at = isoformat(now)

\* the months of the calendar counted through the years
C30_MonthIndex(dt) == (dt.year * 12) + dt.month

\* C30: along a chain of monthly clones the month advances by exactly one
\* with each completion and the day of the month never increases: the clone
\* keeps the day of the task completed, or the last day of its own month when
\* that is earlier, so a day once clamped (31 -> 28) is not restored
C30_MonthlyChain ==
    [][(C29_Spawned /\ tasks[C29_Origin].recurrence = "monthly") =>
           /\ C30_MonthIndex(C29_DueOfClone) = C30_MonthIndex(C29_DueBefore) + 1
           /\ C29_DueOfClone.day <= C29_DueBefore.day
           /\ C29_DueOfClone.day
                 = IF C29_DueBefore.day <= DaysInMonth(C29_DueOfClone.year, C29_DueOfClone.month)
                   THEN C29_DueBefore.day
                   ELSE DaysInMonth(C29_DueOfClone.year, C29_DueOfClone.month)
           /\ tasks'[Len(tasks')].recurrence = "monthly"
      ]_vars

\* the chain 2025-01-31, 2025-02-28, 2025-03-28: the clone of the task due on
\* January 31st was completed in its turn, and its own clone is due on the 28th
C30_Witness ==
    /\ call.op = "mark_complete" /\ call.ret = TRUE /\ call.id = 2
    /\ Len(tasks) = 3
    /\ tasks[1].due_date = Some(dueJan31) /\ tasks[1].completed
    /\ tasks[2].due_date = Some(isoformat(DateTime(2025, 2, 28, 10, 0, 0)))
    /\ tasks[2].completed
    /\ tasks[3].due_date = Some(isoformat(DateTime(2025, 3, 28, 10, 0, 0)))
    /\ ~tasks[3].completed /\ tasks[3].recurrence = "monthly"

====
